---- MODULE Spec2Model ----
(***************************************************************************)
(* VeriProvider-AI: the investigator pipeline (src/src/investigator.py),   *)
(* the tools it calls (npi_tool, geo_tool, phone_tool, web_tool) and the   *)
(* calling pipeline (src/main_test.py).                                    *)
(*                                                                         *)
(* Python values are tagged records, so that None, strings, dicts, lists   *)
(* and booleans can live in the same dict and be tested for truthiness.    *)
(* Text whose characters matter (names, urls, titles) is a sequence of     *)
(* one-character strings; other text is a TLA+ string.                     *)
(***************************************************************************)
EXTENDS Integers, Sequences, FiniteSets, TLC

VARIABLES imported, claimed, pc, idx, context, logs, report, raised, executed, calls

vars == <<imported, claimed, pc, idx, context, logs, report, raised, executed, calls>>

(***************************************************************************)
(* Python values                                                           *)
(***************************************************************************)
None == [t |-> "none"]

Str(s) == [t |-> "str", v |-> s]

Bool(b) == [t |-> "bool", v |-> b]

Dict(d) == [t |-> "dict", v |-> d]

List(l) == [t |-> "list", v |-> l]

EmptyDict == Dict(<<>>)

\* bool(x): None, "", {}, [] and False are falsy.
Truthy(x) ==
  CASE x.t = "none" -> FALSE
    [] x.t = "str" -> Len(x.v) > 0
    [] x.t = "bool" -> x.v
    [] x.t = "dict" -> DOMAIN x.v # {}
    [] x.t = "list" -> Len(x.v) > 0

\* d.get(k, default) on the mapping under a dict
GetOr(d, k, default) == IF k \in DOMAIN d THEN d[k] ELSE default

\* d.get(k)
Get(d, k) == GetOr(d, k, None)

\* d[k] = v
Put(d, k, v) == [x \in DOMAIN d \cup {k} |-> IF x = k THEN v ELSE d[x]]

\* a or b
Or(a, b) == IF Truthy(a) THEN a ELSE b

(***************************************************************************)
(* Text: str.lower, str.strip, str.translate(punctuation), substring       *)
(***************************************************************************)
Upper == <<"A","B","C","D","E","F","G","H","I","J","K","L","M","N","O","P","Q","R","S","T","U","V","W","X","Y","Z">>

Lower == <<"a","b","c","d","e","f","g","h","i","j","k","l","m","n","o","p","q","r","s","t","u","v","w","x","y","z">>

\* the grave accent, which a string of this language cannot hold
Grave == "grave"

\* string.punctuation
Punctuation == {Grave,"!","\"","#","$","%","&","'","(",")","*","+",",","-",".","/",":",";","<","=",">","?","@","[","\\","]","^","_","{","|","}","~"}

\* the characters str.strip() removes (ASCII); the vertical tab and the four
\* separators 0x1c-0x1f, which a string of this language cannot hold, are
\* written by name
Whitespace == {" ", "\t", "\n", "\r", "\f", "vtab", "fs", "gs", "rs", "us"}

\* the characters json.loads skips around a document
JsonWhitespace == {" ", "\t", "\n", "\r"}

LowerChar(c) == IF \E i \in 1..Len(Upper) : Upper[i] = c
                THEN Lower[CHOOSE i \in 1..Len(Upper) : Upper[i] = c]
                ELSE c

\* s.lower()
ToLower(s) == [i \in 1..Len(s) |-> LowerChar(s[i])]

NotPunctuation(c) == c \notin Punctuation

\* s.translate(str.maketrans('', '', string.punctuation))
RemovePunctuation(s) == SelectSeq(s, NotPunctuation)

\* s without the characters of `blank` at its two ends
Trim(s, blank) ==
  LET keep == {i \in 1..Len(s) : s[i] \notin blank}
  IN  IF keep = {} THEN <<>>
      ELSE SubSeq(s, CHOOSE i \in keep : \A j \in keep : i <= j,
                     CHOOSE i \in keep : \A j \in keep : i >= j)

\* s.strip()
Strip(s) == Trim(s, Whitespace)

\* sub in s
Contains(s, sub) ==
  \/ Len(sub) = 0
  \/ \E i \in 1..(Len(s) - Len(sub) + 1) :
       s[i] = sub[1] /\ SubSeq(s, i, i + Len(sub) - 1) = sub

(***************************************************************************)
(* difflib.SequenceMatcher(None, a, b).ratio() as line 107 calls it: no    *)
(* junk function, autojunk left at its default (on).  Positions are        *)
(* 0-based as in difflib; a[i] of Python is a[i+1] here.                   *)
(***************************************************************************)
\* the length of b from which the autojunk heuristic applies
AutojunkLen == 200

\* a character is popular when it fills more than len(b) // 100 + 1 places of b
PopularPer == 100

\* __chain_b: the characters of b left out of b2j as popular
Popular(b) ==
  IF Len(b) < AutojunkLen THEN {}
  ELSE {c \in {b[j] : j \in 1..Len(b)} :
          Cardinality({j \in 1..Len(b) : b[j] = c}) > (Len(b) \div PopularPer) + 1}

\* the length of the longest common run of characters of b2j starting at a[i],
\* b[j] within the windows
CommonLen(a, b, i, ahi, j, bhi, popular) ==
  LET most == IF ahi - i < bhi - j THEN ahi - i ELSE bhi - j
      same(t) == a[i + t + 1] = b[j + t + 1] /\ b[j + t + 1] \notin popular
  IN  CHOOSE k \in 0..most : /\ k = most \/ ~same(k)
                             /\ \A t \in 0..(k - 1) : same(t)

\* how far the first while loop moves the block <<i, j>> towards alo, blo
ExtendBack(a, b, i, alo, j, blo) ==
  LET most == IF i - alo < j - blo THEN i - alo ELSE j - blo
      same(t) == a[i - t] = b[j - t]
  IN  CHOOSE k \in 0..most : /\ k = most \/ ~same(k)
                             /\ \A t \in 0..(k - 1) : same(t)

\* how far the second while loop grows a block that ends before a[i], b[j]
ExtendForward(a, b, i, ahi, j, bhi) ==
  LET most == IF ahi - i < bhi - j THEN ahi - i ELSE bhi - j
      same(t) == a[i + t + 1] = b[j + t + 1]
  IN  CHOOSE k \in 0..most : /\ k = most \/ ~same(k)
                             /\ \A t \in 0..(k - 1) : same(t)

\* the two while loops of find_longest_match applied to the block `best`
Extend(a, b, alo, ahi, blo, bhi, best) ==
  LET back == ExtendBack(a, b, best[1], alo, best[2], blo)
      i == best[1] - back
      j == best[2] - back
      k == best[3] + back
  IN  <<i, j, k + ExtendForward(a, b, i + k, ahi, j + k, bhi)>>

\* the block the loop over a leaves as best: the longest, the earliest in a, and
\* among those the earliest in b; <<alo, blo, 0>> when there is none
Longest(blocks, alo, blo) ==
  IF blocks = {} THEN <<alo, blo, 0>>
  ELSE CHOOSE x \in blocks :
         \A y \in blocks :
           \/ x[3] > y[3]
           \/ /\ x[3] = y[3]
              /\ \/ x[1] < y[1]
                 \/ x[1] = y[1] /\ x[2] <= y[2]

\* find_longest_match(alo, ahi, blo, bhi): the longest block of characters of
\* b2j, extended at both ends by the characters that match.
FindLongestMatch(a, b, alo, ahi, blo, bhi, popular) ==
  LET cand == {<<i, j>> \in (alo..(ahi - 1)) \X (blo..(bhi - 1)) :
                 a[i + 1] = b[j + 1] /\ b[j + 1] \notin popular}
      blocks == {<<p[1], p[2], CommonLen(a, b, p[1], ahi, p[2], bhi, popular)>> : p \in cand}
  IN  CHOOSE m \in {Extend(a, b, alo, ahi, blo, bhi, best) :
                      best \in {Longest(bs, alo, blo) : bs \in {blocks}}} : TRUE

RECURSIVE MatchedLength(_, _, _, _, _, _, _)
\* sum of the sizes of get_matching_blocks() within the windows
MatchedLength(a, b, alo, ahi, blo, bhi, popular) ==
  LET m == FindLongestMatch(a, b, alo, ahi, blo, bhi, popular)
      i == m[1]
      j == m[2]
      k == m[3]
  IN  IF k = 0 THEN 0
      ELSE k
           + (IF alo < i /\ blo < j THEN MatchedLength(a, b, alo, i, blo, j, popular) ELSE 0)
           + (IF i + k < ahi /\ j + k < bhi
              THEN MatchedLength(a, b, i + k, ahi, j + k, bhi, popular) ELSE 0)

\* a float that is a quotient of two naturals
Ratio(n, d) == IF n = 0 THEN [num |-> 0, den |-> 1] ELSE [num |-> n, den |-> d]

Zero == Ratio(0, 1)

\* ratio(): 2.0 * matches / length, and 1.0 when both strings are empty
SequenceRatio(a, b) ==
  IF Len(a) + Len(b) = 0 THEN Ratio(1, 1)
  ELSE CHOOSE r \in {Ratio(2 * MatchedLength(a, b, 0, Len(a), 0, Len(b), popular),
                           Len(a) + Len(b)) : popular \in {Popular(b)}} : TRUE

\* the mismatch threshold 0.60, in hundredths
ThresholdPercent == 60

\* r < 0.60 (IEEE division is correctly rounded and monotone, and 60/100 rounds
\* to the literal 0.60, so the float comparison is the rational one)
BelowThreshold(r) == 100 * r.num < ThresholdPercent * r.den


(***************************************************************************)
(* NameVerificationStep._is_name_mismatch                                  *)
(***************************************************************************)
\* f"{a} {b}" of two character strings
Spaced(a, b) == a.v \o <<" ">> \o b.v

\* a normalize that deletes the punctuation and forgets to lower-case
normalize_keeps_case(s) ==
  IF ~Truthy(s) THEN Str(<<>>)
  ELSE Str(RemovePunctuation(s.v))

\* normalize(s) of _is_name_mismatch: lower-case, then delete the punctuation
normalize(s) ==
  IF ~Truthy(s) THEN Str(<<>>)
  ELSE Str(RemovePunctuation(ToLower(s.v)))

\* organization_name, else "first last" stripped (lines 89-91; line 49 computes
\* the same with `or`)
DisplayName(registry_data) ==
  LET org == Get(registry_data.v, "organization_name")
  IN  IF Truthy(org) THEN org
      ELSE Str(Strip(Spaced(GetOr(registry_data.v, "first_name", Str(<<>>)),
                            GetOr(registry_data.v, "last_name", Str(<<>>)))))

MatchResult(m, r, n) == [is_mismatch |-> m, ratio |-> r, registry_name |-> n]

\* a threshold test that also flags a similarity of exactly 0.60
IsMismatchInclusive(ratio) == 100 * ratio.num <= ThresholdPercent * ratio.den

\* the threshold test of line 111
IsMismatch(ratio) == BelowThreshold(ratio)

\* a matcher without the skip of lines 94-95: it compares whatever it is given
is_name_mismatch_no_skip(vision_name, registry_data) ==
  IF ~Truthy(registry_data) THEN MatchResult(FALSE, Zero, Str(<<>>))
  ELSE LET registry_name == DisplayName(registry_data)
           ratio == SequenceRatio(normalize(vision_name).v, normalize(registry_name).v)
       IN  MatchResult(IsMismatch(ratio), ratio, registry_name)

\* _is_name_mismatch(vision_name, registry_data) -> (is_mismatch, ratio, registry_name)
is_name_mismatch(vision_name, registry_data) ==
  IF ~Truthy(registry_data) THEN MatchResult(FALSE, Zero, Str(<<>>))
  ELSE LET registry_name == DisplayName(registry_data)
       IN  IF ~Truthy(vision_name) \/ ~Truthy(registry_name)
           THEN MatchResult(FALSE, Zero, registry_name)
           ELSE LET v_norm == normalize(vision_name)
                    r_norm == normalize(registry_name)
                    ratio  == SequenceRatio(v_norm.v, r_norm.v)
                IN  MatchResult(IsMismatch(ratio), ratio, registry_name)

(***************************************************************************)
(* Names used as inputs                                                    *)
(***************************************************************************)
ProvidenceHospital == <<"P","r","o","v","i","d","e","n","c","e"," ","H","o","s","p","i","t","a","l">>

John == <<"J","o","h","n">>

Smith == <<"S","m","i","t","h">>

JohnSmith == <<"J","o","h","n"," ","S","m","i","t","h">>

DrJohnASmith == <<"D","r","."," ","J","o","h","n"," ","A","."," ","S","m","i","t","h">>

TerminatorHealth == <<"T","e","r","m","i","n","a","t","o","r"," ","H","e","a","l","t","h">>

\* similarity with "John Smith" is exactly 12/20
JohnSwope == <<"J","o","h","n"," ","S","w","o","p","e">>

\* similarity with "John Smith" is 12/21
JohnSwopes == <<"J","o","h","n"," ","S","w","o","p","e","s">>

\* a claimed name that is empty after normalization
Dots == <<".",".",".">>

\* the claimed names an investigation is given (vision_name)
VisionNames ==
  {None, Str(<<>>), Str(Dots), Str(DrJohnASmith), Str(TerminatorHealth),
   Str(JohnSwope), Str(JohnSwopes)}


(***************************************************************************)
(* Calls and their outcomes.  A tool's operator takes the outcomes of the  *)
(* library calls it makes (HTTP, geocoder, phone library, search) and      *)
(* gives Return(value) or Raise(message).                                  *)
(*                                                                         *)
(* An address is Str(parts), parts being its comma-separated parts in      *)
(* order ("a, b, c d" is <<a, b, <<c, d>>>>); the parts hold no comma.     *)
(***************************************************************************)
Return(v) == [kind |-> "return", value |-> v]

\* an exception object: its class and str(e)
Exc(type, message) == [type |-> type, message |-> message]

Raise(e) == [kind |-> "raise", error |-> e]

\* next((x for x in list if P(x)), None)
FirstWhere(l, P(_)) ==
  IF \E i \in 1..Len(l) : P(l[i])
  THEN l[CHOOSE i \in 1..Len(l) : P(l[i]) /\ \A j \in 1..(i - 1) : ~P(l[j])]
  ELSE None

\* s[:n]
Prefix(s, n) == SubSeq(s, 1, IF Len(s) < n THEN Len(s) ELSE n)

(***************************************************************************)
(* npi_tool.fetch_npi_data(npi_id): `http` is the outcome of               *)
(* requests.get(...), raise_for_status() and response.json() together.     *)
(***************************************************************************)
PostalPrefix == 5

IsLocation(addr) == Get(addr.v, "address_purpose") = Str("LOCATION")

IsPrimary(tax) == Get(tax.v, "primary") = Bool(TRUE)

Specialty(taxonomies) ==
  LET primary_taxonomy == FirstWhere(taxonomies.v, IsPrimary)
  IN  IF Truthy(primary_taxonomy)
      THEN GetOr(primary_taxonomy.v, "desc", Str("Unknown Specialty"))
      ELSE IF Truthy(taxonomies)
           THEN GetOr(taxonomies.v[1].v, "desc", Str("Unknown Specialty"))
           ELSE Str("Unknown Specialty")

\* lines 125-180: the record built from results[0]
NpiRecord(npi_id, result) ==
  LET basic_info == GetOr(result.v, "basic", EmptyDict)
      addresses == GetOr(result.v, "addresses", List(<<>>))
      location_address == FirstWhere(addresses.v, IsLocation)
      loc == location_address.v
      line1 == GetOr(loc, "address_1", Str(""))
      lcity == GetOr(loc, "city", Str(""))
      lst == GetOr(loc, "state", Str(""))
      postal_code == Prefix(GetOr(loc, "postal_code", Str(<<>>)).v, PostalPrefix)
      found == Truthy(location_address)
  IN  Dict([npi |-> npi_id,
            first_name |-> GetOr(basic_info.v, "first_name", Str(<<>>)),
            last_name |-> GetOr(basic_info.v, "last_name", Str(<<>>)),
            organization_name |-> GetOr(basic_info.v, "organization_name", Str(<<>>)),
            credential |-> GetOr(basic_info.v, "credential", Str("")),
            address |-> IF found THEN Str(<<line1.v, lcity.v, <<lst.v, postal_code>>>>)
                        ELSE Str(<<"Address not found">>),
            city |-> IF found THEN lcity ELSE Str(""),
            state |-> IF found THEN lst ELSE Str(""),
            phone |-> IF found THEN GetOr(loc, "telephone_number", Str("")) ELSE Str(""),
            specialty |-> Specialty(GetOr(result.v, "taxonomies", List(<<>>)))])

\* whether fetch_npi_data(npi_id) reaches its HTTP request: with no npi_id and
\* no name arguments it returns None at once (lines 94-101)
FetchRequests(npi_id) == Truthy(npi_id)

fetch_npi_data(npi_id, http) ==
  IF ~FetchRequests(npi_id) THEN Return(None)
  ELSE IF http.kind = "error" THEN Return(None)
  ELSE IF ~Truthy(Get(http.data.v, "results")) THEN Return(None)
  ELSE Return(NpiRecord(npi_id, Get(http.data.v, "results").v[1]))

(***************************************************************************)
(* geo_tool.validate_address_osm(address_str): `exact` and `fallback` are  *)
(* the outcomes of the two geolocator.geocode calls.  "service_error" is a *)
(* GeocoderTimedOut or GeocoderServiceError, "crash" any other exception   *)
(* (the constructor's included).                                           *)
(***************************************************************************)
\* lines 31-36: road and house_number are texts character by character
Street(raw_addr) ==
  LET street_part == GetOr(raw_addr.v, "road", Str(<<>>))
      house_num == GetOr(raw_addr.v, "house_number", Str(<<>>))
      full_street == IF Truthy(street_part)
                     THEN Str(Strip(house_num.v \o <<" ">> \o street_part.v))
                     ELSE None
  IN  IF Truthy(full_street) THEN full_street ELSE None

Components(raw_addr, street) ==
  Dict([street |-> street,
        city |-> Or(Or(Get(raw_addr.v, "city"), Get(raw_addr.v, "town")),
                    Get(raw_addr.v, "village")),
        state |-> Get(raw_addr.v, "state"),
        zip |-> Get(raw_addr.v, "postcode")])

GeoResult(location, match_type, street) ==
  Dict([lat |-> location.latitude,
        lon |-> location.longitude,
        osm_display_name |-> location.address,
        match_type |-> Str(match_type),
        components |-> Components(GetOr(location.raw.v, "address", EmptyDict), street)])

\* whether the fallback geocode call is made (lines 50-58)
GeoFallbackCalled(address_str, exact) ==
  exact.kind = "none" /\ Len(address_str.v) >= 2

validate_address_osm(address_str, exact, fallback) ==
  CASE exact.kind = "crash" -> Raise(exact.error)
    [] exact.kind = "service_error" -> Return(None)
    [] exact.kind = "location" ->
         Return(GeoResult(exact, "EXACT",
                          Street(GetOr(exact.raw.v, "address", EmptyDict))))
    [] exact.kind = "none" ->
         IF ~GeoFallbackCalled(address_str, exact) THEN Return(None)
         ELSE CASE fallback.kind = "crash" -> Raise(fallback.error)
                [] fallback.kind = "service_error" -> Return(None)
                [] fallback.kind = "location" -> Return(GeoResult(fallback, "PARTIAL", None))
                [] fallback.kind = "none" -> Return(None)

(***************************************************************************)
(* phone_tool.validate_phone(phone_str): `lib` is the outcome of the       *)
(* phonenumbers calls (parse, is_valid_number, format_number, geocoder,    *)
(* timezone).                                                              *)
(***************************************************************************)
PhoneFailure(phone_str, error) ==
  Dict([valid |-> Bool(FALSE), original |-> phone_str, error |-> Str(error)])

validate_phone(phone_str, lib) ==
  IF ~Truthy(phone_str) THEN Return(None)
  ELSE CASE lib.kind = "parse_error" ->
              Return(PhoneFailure(phone_str, "Parse Error: " \o lib.error.message))
         [] lib.kind = "other_error" ->
              Return(PhoneFailure(phone_str, "Unexpected Error: " \o lib.error.message))
         [] lib.kind = "invalid" ->
              Return(PhoneFailure(phone_str, "Invalid structure or non-existent number"))
         [] lib.kind = "valid" ->
              Return(Dict([valid |-> Bool(TRUE),
                           original |-> phone_str,
                           formatted_display |-> Str(lib.national),
                           e164 |-> Str(lib.e164),
                           area_location |-> Str(lib.location),
                           time_zones |-> List(lib.zones)]))


(***************************************************************************)
(* web_tool: the search with fallback, and the classification of the hits  *)
(***************************************************************************)
social_domains ==
  <<<<"l","i","n","k","e","d","i","n",".","c","o","m">>,
    <<"i","n","s","t","a","g","r","a","m",".","c","o","m">>,
    <<"f","a","c","e","b","o","o","k",".","c","o","m">>,
    <<"t","w","i","t","t","e","r",".","c","o","m">>,
    <<"x",".","c","o","m">>,
    <<"y","o","u","t","u","b","e",".","c","o","m">>,
    <<"t","i","k","t","o","k",".","c","o","m">>,
    <<"p","i","n","t","e","r","e","s","t",".","c","o","m">>>>

directory_domains ==
  <<<<"h","e","a","l","t","h","g","r","a","d","e","s",".","c","o","m">>,
    <<"w","e","b","m","d",".","c","o","m">>,
    <<"d","o","x","i","m","i","t","y",".","c","o","m">>,
    <<"v","i","t","a","l","s",".","c","o","m">>,
    <<"u","s","n","e","w","s",".","c","o","m">>,
    <<"y","e","l","l","o","w","p","a","g","e","s",".","c","o","m">>,
    <<"s","h","a","r","e","c","a","r","e",".","c","o","m">>,
    <<"m","a","p","q","u","e","s","t",".","c","o","m">>,
    <<"y","e","l","p",".","c","o","m">>,
    <<"z","o","c","d","o","c",".","c","o","m">>,
    <<"m","d",".","c","o","m">>,
    <<"h","e","a","l","t","h",".","u","s","n","e","w","s",".","c","o","m">>>>

official_keywords ==
  <<<<"c","l","i","n","i","c">>,
    <<"m","d">>,
    <<"a","s","s","o","c","i","a","t","e","s">>,
    <<"h","e","a","r","t">>,
    <<"c","a","r","e">>,
    <<"h","o","s","p","i","t","a","l">>,
    <<"h","e","a","l","t","h">>,
    <<"m","e","d","i","c","a","l">>,
    <<"c","e","n","t","e","r">>,
    <<"s","y","s","t","e","m">>,
    <<"g","r","o","u","p">>,
    <<"d","r">>,
    <<"p","h","y","s","i","c","i","a","n">>,
    <<"s","u","r","g","e","r","y">>,
    <<"o","f","f","i","c","i","a","l">>,
    <<"h","o","m","e">>>>

Hit(url, title) == Dict([url |-> url, title |-> title])

\* line 32: `except Exception` of the fallback catches e
FallbackExcept(e) == e.type # "BaseException"

\* a search whose except clause catches nothing
SearchExceptNothing(e) == FALSE

\* line 57: `except Exception` of _perform_web_search catches e
SearchExcept(e) == e.type # "BaseException"

\* search_duckduckgo_html_fallback(query, num_results): `ddg` is the outcome of
\* the POST; the regular expression only matches non-empty hrefs and titles.
\* Return(list) or Raise.
search_duckduckgo_html_fallback(num_results, ddg) ==
  IF ddg.kind = "error"
  THEN (IF FallbackExcept(ddg.error) THEN Return(<<>>) ELSE Raise(ddg.error))
  ELSE LET matches == Prefix(ddg.matches, num_results)
       IN  Return([i \in 1..Len(matches) |->
                     Hit(Str(matches[i][1]), Str(matches[i][2]))])

\* a search that falls back only when the first provider raises
FallbackCalledOnRaise(google) == google.kind = "raise"

\* whether the search falls back to the second provider (lines 44-61)
FallbackCalled(google) == google.kind = "raise" \/ Len(google.results) = 0

\* _perform_web_search(query, num_results): `google` is the outcome of
\* list(search(query, num_results=num_results, advanced=True)).
\* Return(list) or Raise.
perform_web_search(num_results, google, ddg) ==
  IF google.kind = "raise" /\ ~SearchExcept(google.error) THEN Raise(google.error)
  ELSE IF ~FallbackCalled(google)
  THEN Return([i \in 1..Len(google.results) |->
                 Hit(google.results[i].url,
                     IF Truthy(google.results[i].title) THEN google.results[i].title
                     ELSE Str(<<>>))])
  ELSE search_duckduckgo_html_fallback(num_results, ddg)

AnyIn(words, text) == \E i \in 1..Len(words) : Contains(text, words[i])

EmptyFootprint ==
  [official_site |-> None, social_media |-> <<>>, directories |-> <<>>,
   other_mentions |-> <<>>]

\* a loop body in which a later official-looking hit replaces the earlier one
ClassifyLastOfficialWins(res, footprint) ==
  LET raw_url == Get(res.v, "url")
      url == ToLower(GetOr(res.v, "url", Str(<<>>)).v)
      title == ToLower(GetOr(res.v, "title", Str(<<>>)).v)
  IN  IF ~Truthy(raw_url) THEN footprint
      ELSE IF AnyIn(social_domains, url)
      THEN [footprint EXCEPT !.social_media = Append(@, raw_url)]
      ELSE IF AnyIn(directory_domains, url)
      THEN [footprint EXCEPT !.directories = Append(@, raw_url)]
      ELSE IF \E i \in 1..Len(official_keywords) :
                Contains(title, official_keywords[i])
                \/ Contains(url, official_keywords[i])
      THEN [footprint EXCEPT !.official_site = raw_url]
      ELSE [footprint EXCEPT !.other_mentions = Append(@, raw_url)]

\* a loop body that tests the directory domains before the social ones
ClassifyDirectoryFirst(res, footprint) ==
  LET raw_url == Get(res.v, "url")
      url == ToLower(GetOr(res.v, "url", Str(<<>>)).v)
      title == ToLower(GetOr(res.v, "title", Str(<<>>)).v)
  IN  IF ~Truthy(raw_url) THEN footprint
      ELSE IF AnyIn(directory_domains, url)
      THEN [footprint EXCEPT !.directories = Append(@, raw_url)]
      ELSE IF AnyIn(social_domains, url)
      THEN [footprint EXCEPT !.social_media = Append(@, raw_url)]
      ELSE IF ~Truthy(footprint.official_site)
              /\ (\E i \in 1..Len(official_keywords) :
                    Contains(title, official_keywords[i])
                    \/ Contains(url, official_keywords[i]))
      THEN [footprint EXCEPT !.official_site = raw_url]
      ELSE [footprint EXCEPT !.other_mentions = Append(@, raw_url)]

\* the body of the loop of process_results for one hit that does not raise
Classify(res, footprint) ==
  LET raw_url == Get(res.v, "url")
      url == ToLower(GetOr(res.v, "url", Str(<<>>)).v)
      title == ToLower(GetOr(res.v, "title", Str(<<>>)).v)
  IN  IF ~Truthy(raw_url) THEN footprint
      ELSE IF AnyIn(social_domains, url)
      THEN [footprint EXCEPT !.social_media = Append(@, raw_url)]
      ELSE IF AnyIn(directory_domains, url)
      THEN [footprint EXCEPT !.directories = Append(@, raw_url)]
      ELSE IF ~Truthy(footprint.official_site)
              /\ (\E i \in 1..Len(official_keywords) :
                    Contains(title, official_keywords[i])
                    \/ Contains(url, official_keywords[i]))
      THEN [footprint EXCEPT !.official_site = raw_url]
      ELSE [footprint EXCEPT !.other_mentions = Append(@, raw_url)]

\* res.get('url', '').lower() and res.get('title', '').lower() raise
\* AttributeError when the value stored under the key is None
LowerRaises(res) ==
  GetOr(res.v, "url", Str(<<>>)).t = "none" \/ GetOr(res.v, "title", Str(<<>>)).t = "none"

RECURSIVE process_results(_, _)
\* process_results(results, footprint): Return(footprint) or Raise
process_results(results, footprint) ==
  IF Len(results) = 0 THEN Return(footprint)
  ELSE IF LowerRaises(Head(results))
  THEN Raise(Exc("AttributeError", "'NoneType' object has no attribute 'lower'"))
  ELSE process_results(Tail(results), Classify(Head(results), footprint))

FootprintDict(fp) ==
  Dict([official_site |-> fp.official_site,
        social_media |-> List(fp.social_media),
        directories |-> List(fp.directories),
        other_mentions |-> List(fp.other_mentions)])

FootprintBudget == 15

AddressBudget == 5

\* find_provider_url(name, city, state)
find_provider_url(google, ddg) ==
  LET raw_results == perform_web_search(FootprintBudget, google, ddg)
      done == process_results(raw_results.value, EmptyFootprint)
  IN  IF raw_results.kind = "raise" THEN raw_results
      ELSE IF done.kind = "raise" THEN done
      ELSE Return(FootprintDict(done.value))

\* verify_address_claim(claimed_name, claimed_address)
verify_address_claim(google, ddg) ==
  LET raw_results == perform_web_search(AddressBudget, google, ddg)
  IN  IF raw_results.kind = "raise" THEN raw_results
      ELSE Return(List([i \in 1..Len(raw_results.value) |->
                          raw_results.value[i].v.url]))


(***************************************************************************)
(* What the outside world may answer                                       *)
(***************************************************************************)
\* the longest list of hits a provider returns in an investigation
MaxHits == 2

SeqsUpTo(S, n) == UNION {[1..k -> S] : k \in 0..n}

PostalCode == <<"3","6","6","0","8","3","7","8","5">>

LocationAddress ==
  Dict([address_purpose |-> Str("LOCATION"), address_1 |-> Str("6801 Airport Blvd"),
        city |-> Str("Mobile"), state |-> Str("AL"), postal_code |-> Str(PostalCode),
        telephone_number |-> Str("251-633-1000")])

LocationNoPhone ==
  Dict([address_purpose |-> Str("LOCATION"), address_1 |-> Str("12 Main St"),
        city |-> Str("Mobile"), state |-> Str("AL"), postal_code |-> Str(PostalCode)])

MailingAddress ==
  Dict([address_purpose |-> Str("MAILING"), address_1 |-> Str("PO Box 850429"),
        city |-> Str("Mobile"), state |-> Str("AL"), postal_code |-> Str(PostalCode),
        telephone_number |-> Str("251-633-1999")])

\* an organization with a mailing and a location address
OrgResult ==
  Dict([basic |-> Dict([organization_name |-> Str(ProvidenceHospital)]),
        addresses |-> List(<<MailingAddress, LocationAddress>>),
        taxonomies |-> List(<<Dict([primary |-> Bool(TRUE),
                                    desc |-> Str("General Acute Care Hospital")])>>)])

\* a person whose location address has no telephone number
PersonResult ==
  Dict([basic |-> Dict([first_name |-> Str(John), last_name |-> Str(Smith),
                        credential |-> Str("MD")]),
        addresses |-> List(<<LocationNoPhone>>),
        taxonomies |-> List(<<Dict([primary |-> Bool(FALSE),
                                    desc |-> Str("Internal Medicine")])>>)])

\* an organization with no location address
NoLocationResult ==
  Dict([basic |-> Dict([organization_name |-> Str(ProvidenceHospital)]),
        addresses |-> List(<<MailingAddress>>)])

\* a record with no name at all
NamelessResult ==
  Dict([basic |-> EmptyDict, addresses |-> List(<<LocationAddress>>),
        taxonomies |-> List(<<>>)])

RegistryResults == {OrgResult, PersonResult, NoLocationResult, NamelessResult}

HttpError == [kind |-> "error", error |-> Exc("Timeout", "read timed out")]

Json(data) == [kind |-> "json", data |-> data]

NoResults == Json(Dict([result_count |-> Str("0"), results |-> List(<<>>)]))

\* the outcomes of the registry request
RegistryResponses ==
  {HttpError, NoResults} \cup {Json(Dict([results |-> List(<<r>>)])) : r \in RegistryResults}

GeoLocation ==
  [kind |-> "location", latitude |-> Str("30.68"), longitude |-> Str("-88.19"),
   address |-> Str("Mobile, Alabama"),
   raw |-> Dict([address |-> Dict([road |-> Str(<<"A","i","r","p","o","r","t"," ","B","o","u","l","e","v","a","r","d">>),
                                   house_number |-> Str(<<"6","8","0","1">>),
                                   town |-> Str("Mobile"),
                                   state |-> Str("Alabama"),
                                   postcode |-> Str("36608")])])]

\* the outcomes of one geolocator.geocode call
GeoOutcomes ==
  {[kind |-> "none"], [kind |-> "service_error"],
   [kind |-> "crash", error |-> Exc("ValueError", "bad response")],
   GeoLocation}

\* the outcomes of the phonenumbers calls
PhoneOutcomes ==
  {[kind |-> "parse_error",
    error |-> Exc("NumberParseException",
                  "(1) The string supplied did not seem to be a phone number.")],
   [kind |-> "other_error", error |-> Exc("RuntimeError", "boom")],
   [kind |-> "invalid"],
   [kind |-> "valid", national |-> "(251) 633-1000", e164 |-> "+12516331000",
    location |-> "Alabama", zones |-> <<Str("America/Chicago")>>]}

SearchResult(url, title) == [url |-> url, title |-> title]

OfficialUrl == <<"h","t","t","p","s",":","/","/","p","h","m","o","b","i","l","e",".","o","r","g">>

OfficialTitle == <<"P","r","o","v","i","d","e","n","c","e"," ","H","o","s","p","i","t","a","l">>

SocialUrl == <<"h","t","t","p","s",":","/","/","f","a","c","e","b","o","o","k",".","c","o","m","/","p","h">>

DirectoryUrl == <<"h","t","t","p","s",":","/","/","w","e","b","m","d",".","c","o","m","/","j","s">>

DirectoryTitle == <<"D","r","."," ","J","o","h","n"," ","S","m","i","t","h",","," ","M","D">>

\* a social-network url that also holds a directory domain and a keyword
SocialDirectoryUrl == <<"x",".","c","o","m","/","m","d",".","c","o","m">>

OtherUrl == <<"h","t","t","p","s",":","/","/","e","x","a","m","p","l","e",".","o","r","g","/","n">>

OtherTitle == <<"L","o","c","a","l"," ","n","e","w","s">>

\* what the first provider's result objects may look like: url and title may be
\* empty or None
GoogleResults ==
  {SearchResult(Str(OfficialUrl), Str(OfficialTitle)),
   SearchResult(Str(SocialUrl), None),
   SearchResult(Str(DirectoryUrl), Str(DirectoryTitle)),
   SearchResult(Str(OtherUrl), Str(OtherTitle)),
   SearchResult(Str(<<>>), Str(OtherTitle)),
   SearchResult(None, Str(OtherTitle))}

GoogleOutcomes ==
  {[kind |-> "raise", error |-> Exc("HTTPError", "429 Too Many Requests")]}
  \cup {[kind |-> "results", results |-> r] : r \in SeqsUpTo(GoogleResults, MaxHits)}

\* (href, title) pairs the regular expression of the fallback can match
DdgMatches ==
  {<<OfficialUrl, OfficialTitle>>, <<DirectoryUrl, DirectoryTitle>>, <<OtherUrl, OtherTitle>>}

DdgOutcomes ==
  {[kind |-> "error", error |-> Exc("ConnectionError", "connection refused")]}
  \cup {[kind |-> "html", matches |-> m] : m \in SeqsUpTo(DdgMatches, MaxHits)}

\* the fallback's outcome in a search that does not call it
NoFallback == [kind |-> "html", matches |-> <<>>]

\* the identifiers an investigation is given
NpiIds == {Str("1457890234"), Str("")}


(***************************************************************************)
(* investigator.py: the imports, the steps, the agent                      *)
(***************************************************************************)
\* the tools in the order lines 9-12 import them; the first import that fails
\* leaves it and the later ones undefined (lines 8-14)
Tools == <<"fetch_npi_data", "validate_address_osm", "find_provider_url", "validate_phone">>

\* whether the name is bound in investigator.py
Defined(f) == \E i \in 1..imported : Tools[i] = f

NameError(f) == Exc("NameError", "name '" \o f \o "' is not defined")

\* a call and how it ended: error is the exception it raised, or None
Call(fn, arg, error) == [fn |-> fn, arg |-> arg, error |-> error]

\* what a step leaves behind: the context, the log, the calls it made, and the
\* exception that left execute (None when it returned)
StepResult(c, l, k, e) == [context |-> c, logs |-> l, calls |-> k, raised |-> e]

\* the tool's answer, or the NameError of calling an unbound name
Invoke(f, answer) == IF Defined(f) THEN answer ELSE Raise(NameError(f))

\* the record of a step calling f(arg) and getting `got` (a NameError when f is
\* unbound)
Invoked(f, arg, got) ==
  <<Call(f, arg, IF got.kind = "raise" THEN got.error ELSE None)>>

\* an except clause that swallows the failure without a log entry
GeoExceptSilent(ctx, lg, e) == [context |-> Put(ctx, "geo_data", None), logs |-> lg]

\* lines 130-132: the except clause of GeoVerificationStep
GeoExcept(ctx, lg, e) ==
  [context |-> Put(ctx, "geo_data", None),
   logs |-> Append(lg, <<"Investigator: Geo-tool error:", e.message>>)]

\* lines 151-152: the except clause of PhoneValidationStep
PhoneExcept(ctx, lg, e) ==
  [context |-> ctx,
   logs |-> Append(lg, <<"Investigator: Phone tool error:", e.message>>)]

\* an except clause that starts the log afresh with the failure's entry
WebExceptRestartsLog(ctx, lg, e) ==
  [context |-> ctx,
   logs |-> <<<<"Investigator: Web tool error:", e.message>>>>]

\* lines 188-189: the except clause of WebPresenceStep
WebExcept(ctx, lg, e) ==
  [context |-> ctx,
   logs |-> Append(lg, <<"Investigator: Web tool error:", e.message>>)]

\* a first step without its except clause
NpiStepCatchesNothing(e) == FALSE

\* the exceptions NpiRegistryStep catches (line 39)
NpiStepCatches(e) == e.type = "NameError"

\* a first step that stores the missing record and leaves the status as it was
NpiRegistryStepKeepsStatus(ctx, lg, http) ==
  LET npi_id == Get(ctx, "target_npi")
      lg1 == Append(lg, <<"Investigator: Querying CMS NPI Registry API...">>)
      got == Invoke("fetch_npi_data", fetch_npi_data(npi_id, http))
      made == Invoked("fetch_npi_data", npi_id, got)
      npi_data == IF got.kind = "raise" THEN None ELSE got.value
  IN  IF got.kind = "raise" /\ ~NpiStepCatches(got.error)
      THEN StepResult(ctx, lg1, made, got.error)
      ELSE IF ~Truthy(npi_data)
      THEN StepResult(Put(ctx, "npi_data", None),
                      Append(lg1, <<"Investigator: NPI not found or invalid.">>),
                      made, None)
      ELSE StepResult(Put(ctx, "npi_data", npi_data),
                      Append(lg1, <<"Investigator: NPI record found for",
                                    DisplayName(npi_data)>>),
                      made, None)

\* NpiRegistryStep.execute
NpiRegistryStep(ctx, lg, http) ==
  LET npi_id == Get(ctx, "target_npi")
      lg1 == Append(lg, <<"Investigator: Querying CMS NPI Registry API...">>)
      got == Invoke("fetch_npi_data", fetch_npi_data(npi_id, http))
      made == Invoked("fetch_npi_data", npi_id, got)
      npi_data == IF got.kind = "raise" THEN None ELSE got.value
  IN  IF got.kind = "raise" /\ ~NpiStepCatches(got.error)
      THEN StepResult(ctx, lg1, made, got.error)
      ELSE IF ~Truthy(npi_data)
      THEN StepResult(Put(Put(ctx, "status", Str("INVALID_NPI")), "npi_data", None),
                      Append(lg1, <<"Investigator: NPI not found or invalid.">>),
                      made, None)
      ELSE StepResult(Put(ctx, "npi_data", npi_data),
                      Append(lg1, <<"Investigator: NPI record found for",
                                    DisplayName(npi_data)>>),
                      made, None)

\* NameVerificationStep.execute
NameVerificationStep(ctx, lg) ==
  LET npi_data == Get(ctx, "npi_data")
      vision_name == Get(ctx, "vision_name")
      m == is_name_mismatch(vision_name, npi_data)
      ctx1 == IF Truthy(m.registry_name) THEN Put(ctx, "registry_name", m.registry_name)
              ELSE ctx
  IN  IF m.is_mismatch
      THEN StepResult(Put(ctx1, "name_mismatch_flag", Bool(TRUE)),
                      Append(lg, <<"Investigator: WARNING: Identity mismatch!",
                                   vision_name, m.registry_name, m.ratio>>),
                      <<>>, None)
      ELSE StepResult(Put(ctx1, "name_mismatch_flag", Bool(FALSE)),
                      IF Truthy(vision_name) /\ Truthy(m.registry_name)
                      THEN Append(lg, <<"Investigator: Name match confirmed", m.ratio>>)
                      ELSE lg,
                      <<>>, None)

\* GeoVerificationStep.execute
GeoVerificationStep(ctx, lg, exact, fallback) ==
  LET npi_data == Get(ctx, "npi_data")
      address == Get(npi_data.v, "address")
      lg1 == Append(lg, <<"Investigator: Verifying address", address>>)
      got == Invoke("validate_address_osm", validate_address_osm(address, exact, fallback))
      made == Invoked("validate_address_osm", address, got)
      caught == GeoExcept(ctx, lg1, got.error)
      geo_data == got.value
      match == IF Truthy(geo_data) THEN GetOr(geo_data.v, "match_type", Str("UNKNOWN"))
               ELSE Str("NONE")
  IN  IF ~Truthy(npi_data) THEN StepResult(ctx, lg, <<>>, None)
      ELSE IF ~Truthy(address)
      THEN StepResult(ctx, Append(lg1, <<"Investigator: No address to verify.">>),
                      <<>>, None)
      ELSE IF got.kind = "raise"
      THEN StepResult(caught.context, caught.logs, made, None)
      ELSE StepResult(Put(ctx, "geo_data", geo_data),
                      Append(lg1, <<"Investigator: Address verified. Match:", match>>),
                      made, None)

\* PhoneValidationStep.execute
PhoneValidationStep(ctx, lg, lib) ==
  LET npi_data == Get(ctx, "npi_data")
      raw_phone == Get(npi_data.v, "phone")
      lg1 == Append(lg, <<"Investigator: Validating phone", raw_phone>>)
      got == Invoke("validate_phone", validate_phone(raw_phone, lib))
      made == Invoked("validate_phone", raw_phone, got)
      caught == PhoneExcept(ctx, lg1, got.error)
      phone_data == got.value
  IN  IF ~Truthy(npi_data) THEN StepResult(ctx, lg, <<>>, None)
      ELSE IF ~Truthy(raw_phone)
      THEN StepResult(ctx, Append(lg, <<"Investigator: No phone number found.">>),
                      <<>>, None)
      ELSE IF got.kind = "raise"
      THEN StepResult(caught.context, caught.logs, made, None)
      ELSE StepResult(Put(ctx, "phone_data", phone_data),
                      IF Truthy(phone_data) /\ Truthy(Get(phone_data.v, "valid"))
                      THEN Append(lg1, <<"Investigator: Phone valid. Location:",
                                         Get(phone_data.v, "area_location")>>)
                      ELSE Append(lg1, <<"Investigator: Phone validation failed.">>),
                      made, None)

\* the log entries of lines 174-187 for the footprint the search returned
WebLog(web_data) ==
  IF ~Truthy(web_data) THEN <<<<"Investigator: Web search returned no results.">>>>
  ELSE LET official == Get(web_data.v, "official_site")
           social_count == Len(GetOr(web_data.v, "social_media", List(<<>>)).v)
           dir_count == Len(GetOr(web_data.v, "directories", List(<<>>)).v)
       IN  (IF Truthy(official)
            THEN <<<<"Investigator: Found Official Website:", official>>>> ELSE <<>>)
           \o (IF ~Truthy(official) /\ social_count = 0 /\ dir_count = 0
               THEN <<<<"Investigator: Web search returned no results (0 profiles).">>>>
               ELSE <<<<"Investigator: Web search complete.", social_count, dir_count>>>>)

\* a search that asks both providers whatever the first one answers
SearchCallsFanOut(query, num_results, google) ==
  <<Call("search", <<query, num_results>>,
         IF google.kind = "raise" THEN google.error ELSE None),
    Call("search_duckduckgo_html_fallback", <<query, num_results>>, None)>>

\* the calls find_provider_url makes: the search, and the fallback when taken
SearchCalls(query, num_results, google) ==
  <<Call("search", <<query, num_results>>,
         IF google.kind = "raise" THEN google.error ELSE None)>>
  \o (IF FallbackCalled(google)
      THEN <<Call("search_duckduckgo_html_fallback", <<query, num_results>>, None)>>
      ELSE <<>>)

\* a web-presence step that searches for the name read from the document
WebPresenceStepVisionName(ctx, lg, google, ddg) ==
  LET npi_data == Get(ctx, "npi_data")
      lg1 == Append(lg, <<"Investigator: Initiating web presence search...">>)
      search_name == IF Truthy(Get(ctx, "vision_name")) THEN Get(ctx, "vision_name")
                     ELSE Str(<<>>)
      city == GetOr(npi_data.v, "city", Str(""))
      state == GetOr(npi_data.v, "state", Str(""))
      query == <<search_name.v, city.v, state.v>>
      got == Invoke("find_provider_url", find_provider_url(google, ddg))
      made == Invoked("find_provider_url", query, got)
              \o (IF Defined("find_provider_url")
                  THEN SearchCalls(query, FootprintBudget, google) ELSE <<>>)
      caught == WebExcept(ctx, lg1, got.error)
  IN  IF ~Truthy(npi_data) THEN StepResult(ctx, lg, <<>>, None)
      ELSE IF ~(Truthy(search_name) /\ Truthy(city) /\ Truthy(state))
      THEN StepResult(ctx, Append(lg1, <<"Investigator: Insufficient data for web search.">>),
                      <<>>, None)
      ELSE IF got.kind = "raise"
      THEN StepResult(caught.context, caught.logs, made, None)
      ELSE StepResult(Put(ctx, "web_data", got.value), lg1 \o WebLog(got.value),
                      made, None)

\* a web-presence step that searches only once the location step has stored
\* its result
WebPresenceStepAfterGeo(ctx, lg, google, ddg) ==
  LET npi_data == Get(ctx, "npi_data")
      lg1 == Append(lg, <<"Investigator: Initiating web presence search...">>)
      search_name == GetOr(ctx, "registry_name", Str(<<>>))
      city == GetOr(npi_data.v, "city", Str(""))
      state == GetOr(npi_data.v, "state", Str(""))
      query == <<search_name.v, city.v, state.v>>
      got == Invoke("find_provider_url", find_provider_url(google, ddg))
      made == Invoked("find_provider_url", query, got)
              \o (IF Defined("find_provider_url")
                  THEN SearchCalls(query, FootprintBudget, google) ELSE <<>>)
      caught == WebExcept(ctx, lg1, got.error)
  IN  IF ~Truthy(npi_data) THEN StepResult(ctx, lg, <<>>, None)
      ELSE IF ~(Truthy(search_name) /\ Truthy(city) /\ Truthy(state)
                /\ Truthy(Get(ctx, "geo_data")))
      THEN StepResult(ctx, Append(lg1, <<"Investigator: Insufficient data for web search.">>),
                      <<>>, None)
      ELSE IF got.kind = "raise"
      THEN StepResult(caught.context, caught.logs, made, None)
      ELSE StepResult(Put(ctx, "web_data", got.value), lg1 \o WebLog(got.value),
                      made, None)

\* WebPresenceStep.execute
WebPresenceStep(ctx, lg, google, ddg) ==
  LET npi_data == Get(ctx, "npi_data")
      lg1 == Append(lg, <<"Investigator: Initiating web presence search...">>)
      search_name == GetOr(ctx, "registry_name", Str(<<>>))
      city == GetOr(npi_data.v, "city", Str(""))
      state == GetOr(npi_data.v, "state", Str(""))
      query == <<search_name.v, city.v, state.v>>
      got == Invoke("find_provider_url", find_provider_url(google, ddg))
      made == Invoked("find_provider_url", query, got)
              \o (IF Defined("find_provider_url")
                  THEN SearchCalls(query, FootprintBudget, google) ELSE <<>>)
      caught == WebExcept(ctx, lg1, got.error)
  IN  IF ~Truthy(npi_data) THEN StepResult(ctx, lg, <<>>, None)
      ELSE IF ~(Truthy(search_name) /\ Truthy(city) /\ Truthy(state))
      THEN StepResult(ctx, Append(lg1, <<"Investigator: Insufficient data for web search.">>),
                      <<>>, None)
      ELSE IF got.kind = "raise"
      THEN StepResult(caught.context, caught.logs, made, None)
      ELSE StepResult(Put(ctx, "web_data", got.value), lg1 \o WebLog(got.value),
                      made, None)


\* a pipeline that searches the web before it has matched the names
StepsWebBeforeName ==
  <<"NpiRegistryStep", "WebPresenceStep", "NameVerificationStep",
    "GeoVerificationStep", "PhoneValidationStep">>

\* InvestigatorAgent.__init__: self.steps
Steps ==
  <<"NpiRegistryStep", "NameVerificationStep", "GeoVerificationStep",
    "PhoneValidationStep", "WebPresenceStep">>

\* process_provider, lines 213-222: the log and the context of a new investigation
NewLogs(npi_id) == <<<<"Investigator: Starting investigation for NPI:", npi_id>>>>

NewContext(npi_id, vision_name) ==
  [target_npi |-> npi_id, vision_name |-> vision_name, status |-> Str("PENDING")]

\* a loop without its break
LoopNeverBreaks(ctx) == FALSE

\* a loop that also stops once a mismatch is flagged
LoopBreaksOnMismatch(ctx) ==
  \/ Get(ctx, "status") = Str("INVALID_NPI")
  \/ Get(ctx, "name_mismatch_flag") = Bool(TRUE)

\* line 227: the loop stops at the first step once the status is INVALID_NPI
LoopBreaks(ctx) == Get(ctx, "status") = Str("INVALID_NPI")

\* lines 232-240; the clock's answer is not modelled
AssembleReport(ctx, lg) ==
  Dict([npi_registry |-> Get(ctx, "npi_data"),
        geo_verification |-> Get(ctx, "geo_data"),
        phone_verification |-> Get(ctx, "phone_data"),
        web_presence |-> Get(ctx, "web_data"),
        name_mismatch_flag |-> GetOr(ctx, "name_mismatch_flag", Bool(FALSE)),
        audit_log |-> List(lg),
        timestamp |-> Str("%Y-%m-%d %H:%M:%S")])

(***************************************************************************)
(* The state machine of one InvestigatorAgent.process_provider call        *)
(***************************************************************************)
\* main_test.py lines 56-57: the claims the caller holds besides the name
NoClaims == [claimed_address |-> None, claimed_phone |-> None]

CallerClaims ==
  {NoClaims,
   [claimed_address |-> Str(<<"6801 Airport Blvd", "Mobile", "AL">>),
    claimed_phone |-> Str("(251) 555-0100")]}

Init ==
  /\ imported \in 0..Len(Tools)
  /\ claimed \in CallerClaims
  /\ pc = "idle"
  /\ idx = 0
  /\ context = <<>>
  /\ logs = <<>>
  /\ report = None
  /\ raised = None
  /\ executed = <<>>
  /\ calls = <<>>

\* process_provider(npi_id, vision_name) up to the loop
Start ==
  /\ pc = "idle"
  /\ \E npi_id \in NpiIds, vision_name \in VisionNames :
       /\ logs' = NewLogs(npi_id)
       /\ context' = NewContext(npi_id, vision_name)
  /\ pc' = "loop"
  /\ idx' = 1
  /\ UNCHANGED <<imported, claimed, report, raised, executed, calls>>

\* the loop is at a step it will execute
AtStep(name) ==
  /\ pc = "loop"
  /\ idx \in 1..Len(Steps)
  /\ ~LoopBreaks(context)
  /\ Steps[idx] = name

\* step.execute(context, logs) has returned r, or raised out of process_provider
Executed(name, r) ==
  \E done \in {r} :
    /\ context' = done.context
    /\ logs' = done.logs
    /\ calls' = calls \o done.calls
    /\ executed' = Append(executed, name)
    /\ raised' = done.raised
    /\ IF done.raised # None THEN pc' = "raised" /\ idx' = idx
       ELSE IF pc = "loop" THEN pc' = "loop" /\ idx' = idx + 1
       ELSE pc' = "returned" /\ idx' = idx
    /\ UNCHANGED <<imported, claimed, report>>

RunNpiRegistryStep ==
  /\ AtStep("NpiRegistryStep")
  /\ \E http \in RegistryResponses :
       Executed("NpiRegistryStep", NpiRegistryStep(context, logs, http))

RunNameVerificationStep ==
  /\ AtStep("NameVerificationStep")
  /\ Executed("NameVerificationStep", NameVerificationStep(context, logs))

\* the second geocode call has an outcome only when it is made
RunGeoVerificationStep ==
  /\ AtStep("GeoVerificationStep")
  /\ \E exact \in GeoOutcomes :
       \E fallback \in (IF exact.kind = "none" THEN GeoOutcomes ELSE {exact}) :
         Executed("GeoVerificationStep",
                  GeoVerificationStep(context, logs, exact, fallback))

RunPhoneValidationStep ==
  /\ AtStep("PhoneValidationStep")
  /\ \E lib \in PhoneOutcomes :
       Executed("PhoneValidationStep", PhoneValidationStep(context, logs, lib))

\* lines 158-171: whether the step gets as far as a search that is made
SearchReached(ctx) ==
  LET npi_data == Get(ctx, "npi_data")
  IN  /\ Defined("find_provider_url")
      /\ Truthy(npi_data)
      /\ Truthy(GetOr(ctx, "registry_name", Str(<<>>)))
      /\ Truthy(GetOr(npi_data.v, "city", Str("")))
      /\ Truthy(GetOr(npi_data.v, "state", Str("")))

\* a provider has an outcome only when it is called
RunWebPresenceStep ==
  /\ AtStep("WebPresenceStep")
  /\ \E google \in (IF SearchReached(context) THEN GoogleOutcomes
                     ELSE {[kind |-> "results", results |-> <<>>]}) :
       \E ddg \in (IF SearchReached(context) /\ FallbackCalled(google)
                   THEN DdgOutcomes ELSE {NoFallback}) :
         Executed("WebPresenceStep", WebPresenceStep(context, logs, google, ddg))

\* the loop has ended (break, or no step left): the report is returned
Assemble ==
  /\ pc = "loop"
  /\ idx > Len(Steps) \/ LoopBreaks(context)
  /\ report' = AssembleReport(context, logs)
  /\ pc' = "done"
  /\ UNCHANGED <<imported, claimed, idx, context, logs, raised, executed, calls>>

Next ==
  \/ Start
  \/ RunNpiRegistryStep
  \/ RunNameVerificationStep
  \/ RunGeoVerificationStep
  \/ RunPhoneValidationStep
  \/ RunWebPresenceStep
  \/ Assemble

Spec == Init /\ [][Next]_vars


(***************************************************************************)
(* NameVerificationStep on its own: the step is given a context with any   *)
(* claimed name and any registry record (absent and None included)         *)
(***************************************************************************)
\* a registry record with all three name fields set
Record(org, first, last) ==
  Dict([organization_name |-> Str(org), first_name |-> Str(first), last_name |-> Str(last)])

\* the records the registry tool builds, and records with other name fields
NameRecords ==
  {NpiRecord(Str("1457890234"), r) : r \in RegistryResults}
  \cup {Record(<<>>, John, <<>>), Record(<<>>, <<>>, Smith),
        Record(ProvidenceHospital, John, Smith), Record(<<" ">>, John, Smith),
        Dict([first_name |-> Str(John), last_name |-> Str(Smith)])}

\* the contexts the step is run on: without npi_data, with None, with a record
NameContexts ==
  {NewContext(Str("1457890234"), v) : v \in VisionNames}
  \cup {Put(NewContext(Str("1457890234"), v), "npi_data", r) :
          v \in VisionNames, r \in NameRecords \cup {None}}

NameInit ==
  /\ imported = Len(Tools)
  /\ claimed = NoClaims
  /\ pc = "name_step"
  /\ idx = 0
  /\ context \in NameContexts
  /\ logs = <<>>
  /\ report = None
  /\ raised = None
  /\ executed = <<>>
  /\ calls = <<>>

\* NameVerificationStep().execute(context, logs)
NameStepAlone ==
  /\ pc = "name_step"
  /\ Executed("NameVerificationStep", NameVerificationStep(context, logs))

NameNext == NameStepAlone

NameSpec == NameInit /\ [][NameNext]_vars


(***************************************************************************)
(* normalize on its own: applied to a string, then to its own result       *)
(***************************************************************************)
\* the longest string normalize is given, besides the claimed names
MaxNameLen == 3

\* upper and lower case, punctuation, a digit and a blank
NameChars == {"J", "o", ".", "-", " ", "1"}

NormalizeInputs ==
  {None} \cup VisionNames \cup {Str(s) : s \in SeqsUpTo(NameChars, MaxNameLen)}

NormalizeInit ==
  /\ imported = Len(Tools)
  /\ claimed = NoClaims
  /\ pc = "normalize"
  /\ idx = 0
  /\ \E s \in NormalizeInputs : context = [s |-> s]
  /\ logs = <<>>
  /\ report = None
  /\ raised = None
  /\ executed = <<>>
  /\ calls = <<>>

\* v_norm = normalize(s)
NormalizeOnce ==
  /\ pc = "normalize"
  /\ context' = Put(context, "normalized", normalize(context.s))
  /\ pc' = "normalized"
  /\ UNCHANGED <<imported, claimed, idx, logs, report, raised, executed, calls>>

\* normalize(v_norm)
NormalizeAgain ==
  /\ pc = "normalized"
  /\ context' = Put(context, "again", normalize(context.normalized))
  /\ pc' = "normalized_again"
  /\ UNCHANGED <<imported, claimed, idx, logs, report, raised, executed, calls>>

NormalizeNext == NormalizeOnce \/ NormalizeAgain

NormalizeSpec == NormalizeInit /\ [][NormalizeNext]_vars


(***************************************************************************)
(* Steps C and D of _is_name_mismatch on their own: two names that passed  *)
(* the test of line 94 are normalized and compared                         *)
(***************************************************************************)
\* upper case, lower case and punctuation
RatioChars == {"J", "o", "."}

Alphabet == <<"a", "b", "c", "d", "e", "f", "g", "h", "i", "j">>

\* a name of AutojunkLen characters, each of which fills a tenth of it
LongName == [i \in 1..AutojunkLen |-> Alphabet[((i - 1) % Len(Alphabet)) + 1]]

\* long names that differ in their first or last character only
LongClaimed == <<"x">> \o LongName

LongRegistry == LongName \o <<"z">>

RatioPairs ==
  (SeqsUpTo(RatioChars, MaxNameLen) \ {<<>>}) \X (SeqsUpTo(RatioChars, MaxNameLen) \ {<<>>})
  \cup {<<LongClaimed, LongRegistry>>, <<LongRegistry, LongRegistry>>}

RatioInit ==
  /\ imported = Len(Tools)
  /\ claimed = NoClaims
  /\ pc = "step_c"
  /\ idx = 0
  /\ \E p \in RatioPairs : context = [vision_name |-> Str(p[1]), registry_name |-> Str(p[2])]
  /\ logs = <<>>
  /\ report = None
  /\ raised = None
  /\ executed = <<>>
  /\ calls = <<>>

\* lines 103-104
RatioNormalize ==
  /\ pc = "step_c"
  /\ context' = Put(Put(context, "v_norm", normalize(context.vision_name)),
                    "r_norm", normalize(context.registry_name))
  /\ pc' = "step_d"
  /\ UNCHANGED <<imported, claimed, idx, logs, report, raised, executed, calls>>

\* line 107
RatioCompare ==
  /\ pc = "step_d"
  /\ context' = [v_norm |-> context.v_norm, r_norm |-> context.r_norm,
                 ratio |-> SequenceRatio(context.v_norm.v, context.r_norm.v)]
  /\ pc' = "step_e"
  /\ UNCHANGED <<imported, claimed, idx, logs, report, raised, executed, calls>>

RatioNext == RatioNormalize \/ RatioCompare

RatioSpec == RatioInit /\ [][RatioNext]_vars


(***************************************************************************)
(* web_tool on its own: a search through the two providers, then the       *)
(* classification of its hits; and the classification of hit lists whose   *)
(* hits lack a key                                                         *)
(***************************************************************************)
\* the smallest num_results a search is asked for
MinBudget == 1

\* num_results: the two budgets of the callers and one the fixtures exceed
Budgets == {MinBudget, AddressBudget, FootprintBudget}

\* hits as a caller of process_results may build them: without 'url', without
\* 'title', and with the url of another hit under another title
DirectHits ==
  {Dict([title |-> Str(OfficialTitle)]),
   Dict([url |-> Str(OtherUrl)]),
   Hit(Str(OtherUrl), Str(OfficialTitle)),
   Hit(Str(OtherUrl), Str(OtherTitle)),
   Hit(Str(OfficialUrl), Str(OfficialTitle)),
   Hit(Str(DirectoryUrl), Str(DirectoryTitle)),
   Hit(Str(SocialUrl), Str(<<>>)),
   Hit(Str(SocialDirectoryUrl), Str(OfficialTitle))}

\* the first provider answers with one result more than the narrower budget
OverBudget ==
  [kind |-> "results",
   results |-> [i \in 1..(AddressBudget + 1) |-> SearchResult(Str(OtherUrl), Str(OtherTitle))]]

WebInit ==
  /\ imported = Len(Tools)
  /\ claimed = NoClaims
  /\ idx = 0
  /\ logs = <<>>
  /\ report = None
  /\ raised = None
  /\ executed = <<>>
  /\ calls = <<>>
  /\ \/ /\ pc = "search"
        /\ \E google \in GoogleOutcomes \cup {OverBudget}, ddg \in DdgOutcomes, n \in Budgets :
             context = [google |-> google, ddg |-> ddg, num_results |-> n]
     \/ /\ pc = "searched"
        /\ \E hits \in SeqsUpTo(DirectHits, MaxHits) :
             context = [raw_results |-> Return(hits)]

\* raw_results = _perform_web_search(query, num_results)
WebSearch ==
  /\ pc = "search"
  /\ context' = Put(context, "raw_results",
                    perform_web_search(context.num_results, context.google, context.ddg))
  /\ calls' = SearchCalls(<<>>, context.num_results, context.google)
  /\ pc' = "searched"
  /\ UNCHANGED <<imported, claimed, idx, logs, report, raised, executed>>

\* process_results(raw_results, footprint) on an empty footprint
WebClassify ==
  /\ pc = "searched"
  /\ context.raw_results.kind = "return"
  /\ context' = Put(context, "footprint",
                    process_results(context.raw_results.value, EmptyFootprint))
  /\ pc' = "classified"
  /\ UNCHANGED <<imported, claimed, idx, logs, report, raised, executed, calls>>

\* links = verify_address_claim(claimed_name, claimed_address)
WebVerifyAddress ==
  /\ pc = "search"
  /\ context.num_results = AddressBudget
  /\ context' = Put(context, "links", verify_address_claim(context.google, context.ddg))
  /\ calls' = SearchCalls(<<>>, AddressBudget, context.google)
  /\ pc' = "linked"
  /\ UNCHANGED <<imported, claimed, idx, logs, report, raised, executed>>

\* one pass of the loop of process_results (lines 120-144) over the next hit,
\* the footprint filled so far kept under "partial" and the hit's place under "at"
WebLoop ==
  /\ pc \in {"searched", "in_loop"}
  /\ context.raw_results.kind = "return"
  /\ \E at \in {IF pc = "searched" THEN 1 ELSE context.at + 1} :
       /\ at <= Len(context.raw_results.value)
       /\ ~LowerRaises(context.raw_results.value[at])
       /\ context' = [raw_results |-> context.raw_results,
                      at |-> at,
                      partial |-> Classify(context.raw_results.value[at],
                                           IF pc = "searched" THEN EmptyFootprint
                                           ELSE context.partial)]
  /\ pc' = "in_loop"
  /\ UNCHANGED <<imported, claimed, idx, logs, report, raised, executed, calls>>

WebNext == WebSearch \/ WebClassify \/ WebVerifyAddress \/ WebLoop

WebSpec == WebInit /\ [][WebNext]_vars


(***************************************************************************)
(* Two investigations, run one after the other or interleaved, on one      *)
(* agent or on two.  Lists and dicts are objects: `logs` and `context` map *)
(* an object to its contents, and each call holds references to the        *)
(* objects its lines 213 and 218 create.  Here pc, report, executed and    *)
(* calls are indexed by the call.                                          *)
(***************************************************************************)
Investigations == {1, 2}

\* the arguments of the two process_provider calls
PairInputs ==
  <<[npi_id |-> Str("1457890234"), vision_name |-> Str(John)],
    [npi_id |-> Str("1003000126"), vision_name |-> None]>>

\* what the collaborators answer in these runs
PairRegistry == {NoResults, Json(Dict([results |-> List(<<OrgResult>>)])),
                 Json(Dict([results |-> List(<<PersonResult>>)]))}

PairGeo == {[kind |-> "none"], GeoLocation}

PairPhone == {[kind |-> "invalid"],
              [kind |-> "valid", national |-> "(251) 633-1000", e164 |-> "+12516331000",
               location |-> "Alabama", zones |-> <<Str("America/Chicago")>>]}

PairGoogle ==
  {[kind |-> "raise", error |-> Exc("HTTPError", "429 Too Many Requests")],
   [kind |-> "results",
    results |-> <<SearchResult(Str(OfficialUrl), Str(OfficialTitle)),
                  SearchResult(Str(SocialUrl), None)>>]}

PairDdg == {[kind |-> "html", matches |-> <<<<DirectoryUrl, DirectoryTitle>>>>]}

\* the answers a step may get from its collaborators
PairAnswers(name) ==
  CASE name = "NpiRegistryStep" -> {[http |-> h] : h \in PairRegistry}
    [] name = "NameVerificationStep" -> {[none |-> TRUE]}
    [] name = "GeoVerificationStep" -> {[exact |-> g, fallback |-> g] : g \in PairGeo}
    [] name = "PhoneValidationStep" -> {[lib |-> p] : p \in PairPhone}
    [] name = "WebPresenceStep" -> {[google |-> g, ddg |-> d] : g \in PairGoogle, d \in PairDdg}

\* step.execute(ctx, lg) of the named step with the answers a
StepExecute(name, ctx, lg, a) ==
  CASE name = "NpiRegistryStep" -> NpiRegistryStep(ctx, lg, a.http)
    [] name = "NameVerificationStep" -> NameVerificationStep(ctx, lg)
    [] name = "GeoVerificationStep" -> GeoVerificationStep(ctx, lg, a.exact, a.fallback)
    [] name = "PhoneValidationStep" -> PhoneValidationStep(ctx, lg, a.lib)
    [] name = "WebPresenceStep" -> WebPresenceStep(ctx, lg, a.google, a.ddg)

\* the lines execute appends to the log before it calls its tool (lines 35,
\* 122, 143, 162)
Prologue(name, ctx) ==
  CASE name = "NpiRegistryStep" -> <<<<"Investigator: Querying CMS NPI Registry API...">>>>
    [] name = "NameVerificationStep" -> <<>>
    [] name = "GeoVerificationStep" ->
         <<<<"Investigator: Verifying address", Get(Get(ctx, "npi_data").v, "address")>>>>
    [] name = "PhoneValidationStep" ->
         <<<<"Investigator: Validating phone", Get(Get(ctx, "npi_data").v, "phone")>>>>
    [] name = "WebPresenceStep" -> <<<<"Investigator: Initiating web presence search...">>>>

\* whether execute gets as far as its tool and waits for it: the tool is bound
\* and the guards before the call let it through (lines 38, 118-126, 139-145,
\* 159-171)
Waits(name, ctx) ==
  CASE name = "NpiRegistryStep" ->
         Defined("fetch_npi_data") /\ FetchRequests(Get(ctx, "target_npi"))
    [] name = "NameVerificationStep" -> FALSE
    [] name = "GeoVerificationStep" ->
         /\ Defined("validate_address_osm")
         /\ Truthy(Get(ctx, "npi_data"))
         /\ Truthy(Get(Get(ctx, "npi_data").v, "address"))
    [] name = "PhoneValidationStep" ->
         /\ Defined("validate_phone")
         /\ Truthy(Get(ctx, "npi_data"))
         /\ Truthy(Get(Get(ctx, "npi_data").v, "phone"))
    [] name = "WebPresenceStep" -> SearchReached(ctx)

\* one list for the logs of every call
LogsRefShared(k) == 1

\* line 213: `logs = []` makes a list of its own for the call k
LogsRef(k) == k

\* line 218: `context = {...}` makes a dict of its own for the call k
ContextRef(k) == k

\* __init__, lines 198-204: the steps of an agent, whichever agent it is
AgentSteps(agent) == Steps

PairInit ==
  /\ imported = Len(Tools)
  /\ claimed = NoClaims
  /\ \E a \in [Investigations -> {1, 2}] :
       pc = [k \in Investigations |-> [at |-> "idle", agent |-> a[k]]]
  /\ idx = [k \in Investigations |-> 0]
  /\ context = [r \in Investigations |-> <<>>]
  /\ logs = [r \in Investigations |-> <<>>]
  /\ report = [k \in Investigations |-> None]
  /\ raised = None
  /\ executed = [k \in Investigations |-> <<>>]
  /\ calls = [k \in Investigations |-> <<>>]

\* process_provider(npi_id, vision_name) of call k up to the loop
PairStart(k) ==
  /\ pc[k].at = "idle"
  /\ logs' = [logs EXCEPT ![LogsRef(k)] = NewLogs(PairInputs[k].npi_id)]
  /\ context' = [context EXCEPT ![ContextRef(k)] =
                   NewContext(PairInputs[k].npi_id, PairInputs[k].vision_name)]
  /\ pc' = [pc EXCEPT ![k].at = "loop"]
  /\ idx' = [idx EXCEPT ![k] = 1]
  /\ UNCHANGED <<imported, claimed, report, raised, executed, calls>>

\* the step the loop of call k is at
PairAt(k) == AgentSteps(pc[k].agent)[idx[k]]

\* the loop of call k is at a step it will execute
PairReady(k) ==
  /\ pc[k].at = "loop"
  /\ idx[k] \in 1..Len(AgentSteps(pc[k].agent))
  /\ ~LoopBreaks(context[ContextRef(k)])

\* one iteration of the loop of call k whose step.execute(context, logs) does
\* not wait for a tool
PairStep(k) ==
  /\ PairReady(k)
  /\ ~Waits(PairAt(k), context[ContextRef(k)])
  /\ \E a \in PairAnswers(PairAt(k)) :
       \E r \in {StepExecute(PairAt(k), context[ContextRef(k)], logs[LogsRef(k)], a)} :
         /\ context' = [context EXCEPT ![ContextRef(k)] = r.context]
         /\ logs' = [logs EXCEPT ![LogsRef(k)] = r.logs]
         /\ executed' = [executed EXCEPT ![k] = Append(@, PairAt(k))]
         /\ calls' = [calls EXCEPT ![k] = Append(@, a)]
  /\ idx' = [idx EXCEPT ![k] = @ + 1]
  /\ UNCHANGED <<imported, claimed, pc, report, raised>>

\* step.execute(context, logs) of call k begins: it logs what it is about to
\* do and calls its tool
PairBegin(k) ==
  /\ PairReady(k)
  /\ Waits(PairAt(k), context[ContextRef(k)])
  /\ logs' = [logs EXCEPT ![LogsRef(k)] = @ \o Prologue(PairAt(k), context[ContextRef(k)])]
  /\ pc' = [pc EXCEPT ![k].at = "waiting"]
  /\ UNCHANGED <<imported, claimed, idx, context, report, raised, executed, calls>>

\* the tool has answered: step.execute(context, logs) of call k stores and
\* logs the result, and the loop goes on
PairFinish(k) ==
  /\ pc[k].at = "waiting"
  /\ \E a \in PairAnswers(PairAt(k)) :
       \E r \in {StepExecute(PairAt(k), context[ContextRef(k)], <<>>, a)} :
         /\ context' = [context EXCEPT ![ContextRef(k)] = r.context]
         /\ logs' = [logs EXCEPT ![LogsRef(k)] =
                       @ \o SubSeq(r.logs,
                                   Len(Prologue(PairAt(k), context[ContextRef(k)])) + 1,
                                   Len(r.logs))]
         /\ executed' = [executed EXCEPT ![k] = Append(@, PairAt(k))]
         /\ calls' = [calls EXCEPT ![k] = Append(@, a)]
  /\ idx' = [idx EXCEPT ![k] = @ + 1]
  /\ pc' = [pc EXCEPT ![k].at = "loop"]
  /\ UNCHANGED <<imported, claimed, report, raised>>

\* the loop of call k has ended: its report is returned
PairAssemble(k) ==
  /\ pc[k].at = "loop"
  /\ idx[k] > Len(AgentSteps(pc[k].agent)) \/ LoopBreaks(context[ContextRef(k)])
  /\ report' = [report EXCEPT ![k] =
                  AssembleReport(context[ContextRef(k)], logs[LogsRef(k)])]
  /\ pc' = [pc EXCEPT ![k].at = "done"]
  /\ UNCHANGED <<imported, claimed, idx, context, logs, raised, executed, calls>>

PairNext ==
  \E k \in Investigations :
    PairStart(k) \/ PairStep(k) \/ PairBegin(k) \/ PairFinish(k) \/ PairAssemble(k)

PairSpec == PairInit /\ [][PairNext]_vars

RECURSIVE Alone(_, _)
\* the context and log of call k after its first n steps, had it run alone
\* with the answers its collaborators gave
Alone(k, n) ==
  IF n = 0
  THEN [context |-> NewContext(PairInputs[k].npi_id, PairInputs[k].vision_name),
        logs |-> NewLogs(PairInputs[k].npi_id)]
  ELSE CHOOSE after \in
         {StepExecute(executed[k][n], before.context, before.logs, calls[k][n]) :
            before \in {Alone(k, n - 1)}} : TRUE


(***************************************************************************)
(* The location, contact and web-presence steps of one investigation run   *)
(* in any order and overlapping, on the context and the log the first two  *)
(* steps left.  A call of execute reads the context when it begins (lines  *)
(* 117, 138, 158-167), then waits for its tool, then stores what it wrote; *)
(* `calls` holds, for each of the three, the answers of its collaborators  *)
(* and what it has read, and under "base" what the first two steps left.   *)
(***************************************************************************)
ConcurrentSteps == {"GeoVerificationStep", "PhoneValidationStep", "WebPresenceStep"}

\* the investigations whose first two steps found a record
OrderInputs ==
  {[npi_id |-> Str("1457890234"), vision_name |-> v, http |-> h] :
     v \in {None, Str(John)},
     h \in {Json(Dict([results |-> List(<<OrgResult>>)])),
            Json(Dict([results |-> List(<<PersonResult>>)]))}}

\* the context and the log after NpiRegistryStep and NameVerificationStep
AfterIdentity(in) ==
  CHOOSE named \in
    {NameVerificationStep(found.context, found.logs) :
       found \in {NpiRegistryStep(NewContext(in.npi_id, in.vision_name),
                                  NewLogs(in.npi_id), in.http)}} : TRUE

OrderInit ==
  /\ imported \in {1, Len(Tools)}
  /\ claimed = NoClaims
  /\ pc = [at |-> "steps", GeoVerificationStep |-> "ready",
           PhoneValidationStep |-> "ready", WebPresenceStep |-> "ready"]
  /\ idx = 0
  /\ report = None
  /\ raised = None
  /\ executed = <<"NpiRegistryStep", "NameVerificationStep">>
  /\ \E in \in OrderInputs :
       \E base \in {AfterIdentity(in)} :
         /\ context = base.context
         /\ logs = base.logs
         /\ \E g \in PairAnswers("GeoVerificationStep") \cup
                     {[exact |-> [kind |-> "crash", error |-> Exc("ValueError", "bad response")],
                       fallback |-> [kind |-> "none"]]},
               p \in PairAnswers("PhoneValidationStep"),
               w \in PairAnswers("WebPresenceStep") :
              calls = [base |-> [context |-> base.context, logs |-> base.logs],
                       GeoVerificationStep |-> [answer |-> g, read |-> None],
                       PhoneValidationStep |-> [answer |-> p, read |-> None],
                       WebPresenceStep |-> [answer |-> w, read |-> None]]

\* the keys a call of execute stored: those it added and those it changed
Written(before, after) ==
  {f \in DOMAIN after : f \notin DOMAIN before \/ after[f] # before[f]}

\* step.execute(context, logs) runs from beginning to end without waiting: its
\* tool is unbound, or the record has nothing for it
OrderWhole(name) ==
  /\ pc.at = "steps"
  /\ pc[name] = "ready"
  /\ ~Waits(name, context)
  /\ \E r \in {StepExecute(name, context, logs, calls[name].answer)} :
       /\ r.raised = None
       /\ context' = r.context
       /\ logs' = r.logs
  /\ calls' = [calls EXCEPT ![name].read = [context |-> context, logs |-> logs]]
  /\ executed' = Append(executed, name)
  /\ pc' = [pc EXCEPT ![name] = "finished"]
  /\ UNCHANGED <<imported, claimed, idx, report, raised>>

\* step.execute(context, logs) begins: it reads the context, logs what it is
\* about to do and calls its tool
OrderBegin(name) ==
  /\ pc.at = "steps"
  /\ pc[name] = "ready"
  /\ Waits(name, context)
  /\ calls' = [calls EXCEPT ![name].read = [context |-> context, logs |-> logs]]
  /\ logs' = logs \o Prologue(name, context)
  /\ pc' = [pc EXCEPT ![name] = "running"]
  /\ UNCHANGED <<imported, claimed, idx, context, report, raised, executed>>

\* the tool has answered: step.execute(context, logs) stores and logs the
\* result in the shared context and log
OrderFinish(name) ==
  /\ pc.at = "steps"
  /\ pc[name] = "running"
  /\ \E read \in {calls[name].read} :
       \E r \in {StepExecute(name, read.context, read.logs, calls[name].answer)} :
         /\ r.raised = None
         /\ context' = [f \in DOMAIN context \cup Written(read.context, r.context) |->
                          IF f \in Written(read.context, r.context)
                          THEN r.context[f] ELSE context[f]]
         /\ logs' = logs \o SubSeq(r.logs,
                                   Len(read.logs) + Len(Prologue(name, read.context)) + 1,
                                   Len(r.logs))
  /\ executed' = Append(executed, name)
  /\ pc' = [pc EXCEPT ![name] = "finished"]
  /\ UNCHANGED <<imported, claimed, idx, report, raised, calls>>

\* lines 232-240, once the three steps have finished
OrderAssemble ==
  /\ pc.at = "steps"
  /\ \A name \in ConcurrentSteps : pc[name] = "finished"
  /\ report' = AssembleReport(context, logs)
  /\ pc' = [pc EXCEPT !.at = "done"]
  /\ UNCHANGED <<imported, claimed, idx, context, logs, raised, executed, calls>>

OrderNext ==
  \/ \E name \in ConcurrentSteps : OrderWhole(name) \/ OrderBegin(name) \/ OrderFinish(name)
  \/ OrderAssemble

OrderSpec == OrderInit /\ [][OrderNext]_vars

\* the report of the loop of lines 225-229 run on the same base with the same
\* answers: location, then contact, then web presence
SequentialReport ==
  CHOOSE rep \in
    {AssembleReport(w.context, w.logs) :
       w \in {StepExecute("WebPresenceStep", p.context, p.logs, calls.WebPresenceStep.answer) :
         p \in {StepExecute("PhoneValidationStep", g.context, g.logs,
                            calls.PhoneValidationStep.answer) :
           g \in {StepExecute("GeoVerificationStep", calls.base.context, calls.base.logs,
                              calls.GeoVerificationStep.answer)}}}} : TRUE


(***************************************************************************)
(* What the claims speak of                                                *)
(***************************************************************************)
Status == Get(context, "status")

HasLog(tag) == \E i \in DOMAIN logs : logs[i][1] = tag

Ran(name) == \E i \in DOMAIN executed : executed[i] = name

\* the order of the five steps the specification fixes
FixedOrder ==
  <<"NpiRegistryStep", "NameVerificationStep", "GeoVerificationStep",
    "PhoneValidationStep", "WebPresenceStep">>

\* the first step has run and its lookup gave no record
LookupFoundNothing ==
  /\ Ran("NpiRegistryStep")
  /\ raised = None
  /\ ~Truthy(Get(context, "npi_data"))

MismatchWarning == "Investigator: WARNING: Identity mismatch!"

\* the tools of the location, contact and web-presence steps
StepTools == {"validate_address_osm", "validate_phone", "find_provider_url"}

ErrorTag(fn) ==
  CASE fn = "validate_address_osm" -> "Investigator: Geo-tool error:"
    [] fn = "validate_phone" -> "Investigator: Phone tool error:"
    [] fn = "find_provider_url" -> "Investigator: Web tool error:"

ContextField(fn) ==
  CASE fn = "validate_address_osm" -> "geo_data"
    [] fn = "validate_phone" -> "phone_data"
    [] fn = "find_provider_url" -> "web_data"

ReportField(fn) ==
  CASE fn = "validate_address_osm" -> "geo_verification"
    [] fn = "validate_phone" -> "phone_verification"
    [] fn = "find_provider_url" -> "web_presence"

\* the call of tool fn raised
ToolRaised(fn) == \E i \in DOMAIN calls : calls[i].fn = fn /\ calls[i].error # None

(***************************************************************************)
(* C1. Short-circuit: when the registry lookup of the first step yields no *)
(* record, the status becomes INVALID_NPI, no later step executes (and no  *)
(* other tool is called), and the returned report has no geo, phone or web *)
(* field.                                                                  *)
(***************************************************************************)
C1_ShortCircuit ==
  LookupFoundNothing =>
    /\ Status = Str("INVALID_NPI")
    /\ executed = <<"NpiRegistryStep">>
    /\ \A i \in DOMAIN calls : calls[i].fn = "fetch_npi_data"
    /\ pc = "done" =>
         /\ Get(report.v, "geo_verification") = None
         /\ Get(report.v, "phone_verification") = None
         /\ Get(report.v, "web_presence") = None

\* a returned report after a lookup that was made for an identifier and found nothing
C1_Witness ==
  /\ pc = "done"
  /\ LookupFoundNothing
  /\ Truthy(Get(context, "target_npi"))
  /\ calls = <<Call("fetch_npi_data", Get(context, "target_npi"), None)>>

(***************************************************************************)
(* C2. Whatever the collaborators do (return a value, return nothing,      *)
(* raise), no exception leaves process_provider and the investigation ends *)
(* with a report returned to the caller: the call is never left by an      *)
(* exception, it is in its loop for at most one iteration per step of the  *)
(* pipeline, every iteration either runs a step or ends the loop, and the  *)
(* call that has ended has returned a report with its audit log.           *)
(***************************************************************************)
C2_AlwaysReturnsReport ==
  /\ raised = None
  /\ pc \in {"idle", "loop", "done"}
  /\ pc = "loop" =>
       /\ idx = Len(executed) + 1
       /\ idx <= Len(Steps) + 1
       /\ \/ idx > Len(Steps)
          \/ LoopBreaks(context)
          \/ \E i \in DOMAIN FixedOrder : Steps[idx] = FixedOrder[i]
  /\ pc = "done" =>
       /\ report # None
       /\ Get(report.v, "audit_log") = List(logs)

\* a report returned although the tools of all three later steps raised
C2_Witness ==
  /\ pc = "done"
  /\ report # None
  /\ \A fn \in StepTools : ToolRaised(fn)

(***************************************************************************)
(* C3. When the tool call of the location, contact or web-presence step    *)
(* raises, the step logs an entry carrying the exception's message, its    *)
(* context field stays None, no exception leaves the step, and all five    *)
(* steps have executed when the report is returned.                        *)
(***************************************************************************)
C3_StepFailureContained ==
  \A i \in DOMAIN calls :
    (calls[i].fn \in StepTools /\ calls[i].error # None) =>
      /\ \E j \in DOMAIN logs :
           /\ logs[j][1] = ErrorTag(calls[i].fn)
           /\ logs[j][2] = calls[i].error.message
      /\ Get(context, ContextField(calls[i].fn)) = None
      /\ raised = None
      /\ pc # "raised"
      /\ pc = "done" =>
           /\ executed = FixedOrder
           /\ Get(report.v, ReportField(calls[i].fn)) = None

\* the geocoder raised in a finished run whose web search then succeeded
C3_Witness ==
  /\ pc = "done"
  /\ ToolRaised("validate_address_osm")
  /\ HasLog("Investigator: Geo-tool error:")
  /\ Truthy(Get(context, "web_data"))

(***************************************************************************)
(* C4. An identity mismatch never halts the pipeline: when the identifier  *)
(* resolves and the name step finds a mismatch, the flag is true, the log  *)
(* holds a mismatch warning, and the location, contact and web-presence    *)
(* steps have all executed when the report, with the flag true, is         *)
(* returned.                                                               *)
(***************************************************************************)
MismatchFound ==
  /\ Ran("NameVerificationStep")
  /\ Truthy(Get(context, "npi_data"))
  /\ is_name_mismatch(Get(context, "vision_name"), Get(context, "npi_data")).is_mismatch

\* C4: a mismatch found by the name step is flagged and warned of in the
\* report, and the location, contact and web-presence steps still run
C4_MismatchDoesNotHalt ==
  MismatchFound =>
    /\ Get(context, "name_mismatch_flag") = Bool(TRUE)
    /\ HasLog(MismatchWarning)
    /\ raised = None
    /\ pc \in {"loop", "done"}
    /\ pc = "loop" => ~LoopBreaks(context)
    /\ pc = "done" =>
         /\ Get(report.v, "name_mismatch_flag") = Bool(TRUE)
         /\ executed = FixedOrder

\* scenario B: "Terminator Health" claimed for "Providence Hospital", run to the end
C4_Witness ==
  /\ pc = "done"
  /\ MismatchFound
  /\ Get(context, "vision_name") = Str(TerminatorHealth)
  /\ Get(context, "registry_name") = Str(ProvidenceHospital)
  /\ Ran("WebPresenceStep")

(***************************************************************************)
(* C5. The steps execute one after the other in the fixed order registry,  *)
(* identity match, location, contact, web presence: what has executed is   *)
(* always a prefix of that order (so each step runs at most once and the   *)
(* identity match precedes the web presence), and the loop is at step k    *)
(* only when the k-1 steps before it have executed.                        *)
(***************************************************************************)
C5_FixedStepOrder ==
  /\ Len(executed) <= Len(FixedOrder)
  /\ executed = SubSeq(FixedOrder, 1, Len(executed))
  /\ pc = "loop" => Len(executed) = idx - 1

\* all five steps have executed
C5_Witness ==
  /\ pc = "done"
  /\ Len(executed) = Len(FixedOrder)
  /\ Ran("WebPresenceStep")


(***************************************************************************)
(* C6. The context status is monotonic: PENDING at the start; once         *)
(* INVALID_NPI no further step executes; COMPLETE at the end of a run that *)
(* was not short-circuited.                                                *)
(***************************************************************************)
C6_StatusLifecycle ==
  /\ (pc = "loop" /\ executed = <<>>) => Status = Str("PENDING")
  /\ Status = Str("INVALID_NPI") => executed = <<"NpiRegistryStep">>
  /\ (pc = "done" /\ Status # Str("INVALID_NPI")) => Status = Str("COMPLETE")

(***************************************************************************)
(* C7. Every returned report carries a terminal status token, INVALID_NPI  *)
(* when the lookup found no record and COMPLETE otherwise, so that the     *)
(* calling pipeline derives failed_invalid_npi for an identifier that does *)
(* not resolve.                                                            *)
(***************************************************************************)
\* main_test.py lines 106-111: the overall status derived from a report
FinalStatus(investigation_result) ==
  IF Get(investigation_result.v, "status") = Str("INVALID_NPI") THEN "failed_invalid_npi"
  ELSE IF Truthy(Get(investigation_result.v, "name_mismatch_flag"))
  THEN "warning_identity_mismatch"
  ELSE "complete"

\* C7: the returned report has the status INVALID_NPI or COMPLETE, and the
\* pipeline derives failed_invalid_npi when the lookup found no record
C7_TerminalStatusToken ==
  pc = "done" =>
    /\ Get(report.v, "status")
         = (IF LookupFoundNothing THEN Str("INVALID_NPI") ELSE Str("COMPLETE"))
    /\ LookupFoundNothing => FinalStatus(report) = "failed_invalid_npi"

(***************************************************************************)
(* C8. The matcher never reports a mismatch without both sides: when the   *)
(* registry record is absent, or the claimed name is absent or empty, or   *)
(* the registry display name is empty, is_mismatch is not true, the flag   *)
(* is false and no mismatch warning is logged.                             *)
(***************************************************************************)
SideAbsent ==
  \/ ~Truthy(Get(context, "npi_data"))
  \/ ~Truthy(Get(context, "vision_name"))
  \/ ~Truthy(DisplayName(Get(context, "npi_data")))

\* C8: with a side absent the matcher reports no mismatch and the flag is false
C8_NoMismatchWithoutBothSides ==
  (pc = "returned" /\ SideAbsent) =>
    /\ ~is_name_mismatch(Get(context, "vision_name"), Get(context, "npi_data")).is_mismatch
    /\ Get(context, "name_mismatch_flag") = Bool(FALSE)
    /\ ~HasLog(MismatchWarning)
    /\ Get(AssembleReport(context, logs).v, "name_mismatch_flag") = Bool(FALSE)

\* the step has run with a claimed name and a record that has no name
C8_Witness ==
  /\ pc = "returned"
  /\ Get(context, "vision_name") = Str(TerminatorHealth)
  /\ Truthy(Get(context, "npi_data"))
  /\ ~Truthy(DisplayName(Get(context, "npi_data")))
  /\ Get(context, "name_mismatch_flag") = Bool(FALSE)

(***************************************************************************)
(* C9. In the returned report "no claim to verify" (a name missing) can be *)
(* told from "claim verified" (both names present, similarity at least     *)
(* 0.60): the match result is absent in the first case, present in the     *)
(* second, and the match fields of the report of a no-claim run differ     *)
(* from those of the run that differs only in having a verified claim.     *)
(***************************************************************************)
ReportMatchFields(rep) ==
  <<Get(rep.v, "match_result"), Get(rep.v, "name_mismatch_flag")>>

\* both names are present and the matcher finds no mismatch
Verified(vision_name, npi_data) ==
  /\ Truthy(vision_name)
  /\ Truthy(DisplayName(npi_data))
  /\ ~is_name_mismatch(vision_name, npi_data).is_mismatch

NoClaim(vision_name, npi_data) ==
  ~Truthy(vision_name) \/ ~Truthy(DisplayName(npi_data))

\* the report of the investigation of the same record with the claimed name v
ReportWithClaim(v) ==
  AssembleReport(
    NameVerificationStep(Put(context, "vision_name", v), <<>>).context, <<>>)

\* C9: the report's match fields tell a no-claim run from a verified-claim run
C9_NoClaimDistinguishable ==
  (pc = "done" /\ Truthy(Get(context, "npi_data"))) =>
    LET v == Get(context, "vision_name")
        r == Get(context, "npi_data")
    IN  /\ NoClaim(v, r) => Get(report.v, "match_result") = None
        /\ Verified(v, r) => Get(report.v, "match_result") # None
        /\ NoClaim(v, r) =>
             \A v2 \in VisionNames :
               Verified(v2, r) =>
                 ReportMatchFields(report) # ReportMatchFields(ReportWithClaim(v2))

(***************************************************************************)
(* C10. With both names present, the flag is true exactly when the         *)
(* similarity of the normalized names is below 0.60 (3/5); exactly 0.60 is *)
(* no mismatch; "Dr. John A. Smith" against "John Smith" is no mismatch    *)
(* and "Terminator Health" against "Providence Hospital" is one.           *)
(***************************************************************************)
BothPresent ==
  /\ Truthy(Get(context, "npi_data"))
  /\ Truthy(Get(context, "vision_name"))
  /\ Truthy(DisplayName(Get(context, "npi_data")))

\* the similarity of the two names of the context
Similarity ==
  SequenceRatio(normalize(Get(context, "vision_name")).v,
                normalize(DisplayName(Get(context, "npi_data"))).v)

Flagged == Get(context, "name_mismatch_flag") = Bool(TRUE)

\* C10: with both names present, flagged exactly when similarity < 0.60
C10_ThresholdIsStrict ==
  (pc = "returned" /\ BothPresent) =>
    /\ Flagged <=> 5 * Similarity.num < 3 * Similarity.den
    /\ (/\ Get(context, "vision_name") = Str(DrJohnASmith)
        /\ DisplayName(Get(context, "npi_data")) = Str(JohnSmith)) => ~Flagged
    /\ (/\ Get(context, "vision_name") = Str(TerminatorHealth)
        /\ DisplayName(Get(context, "npi_data")) = Str(ProvidenceHospital)) => Flagged

\* a claimed name whose similarity with the registry name is exactly 0.60
C10_Witness ==
  /\ pc = "returned"
  /\ BothPresent
  /\ 5 * Similarity.num = 3 * Similarity.den
  /\ ~Flagged
  /\ HasLog("Investigator: Name match confirmed")

(***************************************************************************)
(* C11. normalize lower-cases its input and removes every punctuation      *)
(* character, keeping the other characters in their order; it returns the  *)
(* empty string for None and for the empty string; and it is idempotent:   *)
(* normalize(normalize(s)) = normalize(s).                                 *)
(***************************************************************************)
\* the characters of s that are not punctuation, in order
Unpunctuated(s) == SelectSeq(s, LAMBDA c : c \notin Punctuation)

C11_NormalizeIdempotent ==
  /\ pc \in {"normalized", "normalized_again"} =>
       LET s == context.s
           n == context.normalized
       IN  /\ n.t = "str"
           /\ \A i \in DOMAIN n.v :
                n.v[i] \notin Punctuation /\ ~(\E k \in DOMAIN Upper : Upper[k] = n.v[i])
           /\ ~Truthy(s) => n = Str(<<>>)
           /\ Truthy(s) =>
                /\ Len(n.v) = Len(Unpunctuated(s.v))
                /\ \A i \in DOMAIN n.v :
                     LET c == Unpunctuated(s.v)[i]
                     IN  n.v[i] = c \/ (\E k \in DOMAIN Upper : Upper[k] = c /\ Lower[k] = n.v[i])
  /\ pc = "normalized_again" => context.again = context.normalized

\* normalize has been applied twice to a string with capitals and punctuation
C11_Witness ==
  /\ pc = "normalized_again"
  /\ context.s = Str(DrJohnASmith)
  /\ context.normalized # context.s
  /\ context.again = context.normalized

(***************************************************************************)
(* C12. Aggregator fallback: when the first provider raises or returns no  *)
(* result, the second provider is called and the search returns the second *)
(* provider's results (its first num_results matches) as {url, title}      *)
(* dicts, the empty list when the second provider fails.                   *)
(***************************************************************************)
PrimaryFailed ==
  context.google.kind = "raise" \/ context.google.results = <<>>

C12_AggregatorFallback ==
  (pc = "searched" /\ "google" \in DOMAIN context /\ PrimaryFailed) =>
    LET got == context.raw_results
        ddg == context.ddg
        n == context.num_results
    IN  /\ \E i \in DOMAIN calls : calls[i].fn = "search_duckduckgo_html_fallback"
        /\ got.kind = "return"
        /\ ddg.kind = "error" => got.value = <<>>
        /\ ddg.kind = "html" =>
             /\ Len(got.value) = (IF Len(ddg.matches) < n THEN Len(ddg.matches) ELSE n)
             /\ \A i \in DOMAIN got.value :
                  /\ DOMAIN got.value[i].v = {"url", "title"}
                  /\ got.value[i].v.url = Str(ddg.matches[i][1])
                  /\ got.value[i].v.title = Str(ddg.matches[i][2])

\* the first provider returned nothing and the second one's matches came back
C12_Witness ==
  /\ pc = "searched"
  /\ "google" \in DOMAIN context
  /\ context.google.kind = "results"
  /\ context.google.results = <<>>
  /\ context.ddg.kind = "html"
  /\ Len(context.ddg.matches) = MaxHits
  /\ Len(context.raw_results.value) = MaxHits

(***************************************************************************)
(* C13. The aggregator never raises: whatever the two providers do, the    *)
(* search returns a list, and a provider that fails counts as one that     *)
(* found nothing.                                                          *)
(***************************************************************************)
NoResultsFrom == [kind |-> "results", results |-> <<>>]

C13_AggregatorNeverRaises ==
  (pc = "searched" /\ "google" \in DOMAIN context) =>
    LET got == context.raw_results
        n == context.num_results
    IN  /\ got.kind = "return"
        /\ got.value \in Seq({got.value[i] : i \in DOMAIN got.value})
        /\ Len(got.value) <= (IF context.google.kind = "results"
                                 /\ context.google.results # <<>>
                              THEN Len(context.google.results) ELSE n)
        /\ context.google.kind = "raise" =>
             got = perform_web_search(n, NoResultsFrom, context.ddg)
        /\ context.ddg.kind = "error" /\ PrimaryFailed => got.value = <<>>

\* both providers failed and the search returned the empty list
C13_Witness ==
  /\ pc = "searched"
  /\ "google" \in DOMAIN context
  /\ context.google.kind = "raise"
  /\ context.ddg.kind = "error"
  /\ context.raw_results = Return(<<>>)

(***************************************************************************)
(* C14. Classifier totality: for every hit list the classifier yields a    *)
(* footprint in which every hit with a non-empty url has been placed in    *)
(* one of the four buckets and the hits with an empty or absent url in     *)
(* none: the buckets hold as many entries as there are hits with a         *)
(* non-empty url.                                                          *)
(***************************************************************************)
\* the number of entries of the four buckets
BucketEntries(fp) ==
  (IF Truthy(fp.official_site) THEN 1 ELSE 0)
  + Len(fp.social_media) + Len(fp.directories) + Len(fp.other_mentions)

\* the urls of the four buckets
BucketUrls(fp) ==
  (IF Truthy(fp.official_site) THEN {fp.official_site} ELSE {})
  \cup {fp.social_media[i] : i \in DOMAIN fp.social_media}
  \cup {fp.directories[i] : i \in DOMAIN fp.directories}
  \cup {fp.other_mentions[i] : i \in DOMAIN fp.other_mentions}

\* the positions of the hits that have a non-empty url
WithUrl(hits) == {i \in DOMAIN hits : Truthy(Get(hits[i].v, "url"))}

\* the classification of every hit list without a None under 'url' or 'title'
\* places each hit with a url in one bucket
ClassifiedWhenNoNone ==
  (pc = "classified" /\ context.footprint.kind = "return") =>
    LET hits == context.raw_results.value
        fp == context.footprint.value
    IN  /\ BucketEntries(fp) = Cardinality(WithUrl(hits))
        /\ BucketUrls(fp) = {hits[i].v.url : i \in WithUrl(hits)}

C14_ClassifierTotal ==
  pc = "classified" =>
    /\ context.footprint.kind = "return"
    /\ ClassifiedWhenNoNone

(***************************************************************************)
(* C15. In the footprint of any hit list, the same url twice included,     *)
(* each url appears in at most one of official_site, social_media,         *)
(* directories and other_mentions.                                         *)
(***************************************************************************)
\* the urls of a list of the footprint
Urls(l) == {l[i] : i \in DOMAIN l}

C15_UrlInOneCategory ==
  (pc = "classified" /\ context.footprint.kind = "return") =>
    LET fp == context.footprint.value
        official == IF Truthy(fp.official_site) THEN {fp.official_site} ELSE {}
    IN  /\ official \cap Urls(fp.social_media) = {}
        /\ official \cap Urls(fp.directories) = {}
        /\ official \cap Urls(fp.other_mentions) = {}
        /\ Urls(fp.social_media) \cap Urls(fp.directories) = {}
        /\ Urls(fp.social_media) \cap Urls(fp.other_mentions) = {}
        /\ Urls(fp.directories) \cap Urls(fp.other_mentions) = {}

(***************************************************************************)
(* C16. official_site of the footprint is None or the url of the first     *)
(* hit, in input order, that satisfies the official-keyword rule: a        *)
(* keyword occurs in its title or in its url.                              *)
(***************************************************************************)
\* line 139: a keyword occurs in the lower-cased title or url of the hit
KeywordRule(res) ==
  LET url == ToLower(GetOr(res.v, "url", Str(<<>>)).v)
      title == ToLower(GetOr(res.v, "title", Str(<<>>)).v)
  IN  \E i \in 1..Len(official_keywords) :
        Contains(title, official_keywords[i]) \/ Contains(url, official_keywords[i])

\* lines 125-135: the hit has a url and is neither social nor a directory
ReachesKeywordRule(res) ==
  LET url == ToLower(GetOr(res.v, "url", Str(<<>>)).v)
  IN  /\ Truthy(Get(res.v, "url"))
      /\ ~AnyIn(social_domains, url)
      /\ ~AnyIn(directory_domains, url)

\* the first position of hits that satisfies P, 0 when none does
FirstIndex(hits, P(_)) ==
  IF \E i \in DOMAIN hits : P(hits[i])
  THEN CHOOSE i \in DOMAIN hits : P(hits[i]) /\ \A j \in 1..(i - 1) : ~P(hits[j])
  ELSE 0

\* a hit that is not discarded for want of a url and satisfies the keyword rule
KeywordHit(res) == Truthy(Get(res.v, "url")) /\ KeywordRule(res)

\* C16 as stated: official_site is None or the url of the first hit
\* satisfying the official-keyword rule
C16_OfficialIsFirstKeywordHit ==
  (pc = "classified" /\ context.footprint.kind = "return") =>
    LET hits == context.raw_results.value
        fp == context.footprint.value
        first == FirstIndex(hits, KeywordHit)
    IN  \/ fp.official_site = None
        \/ first > 0 /\ fp.official_site = Get(hits[first].v, "url")

\* C16 amended: official_site is None or the url of the first hit with a
\* non-empty url that is in no social or directory domain and satisfies the
\* official-keyword rule
QualifiesOfficial(res) == ReachesKeywordRule(res) /\ KeywordRule(res)

C16_OfficialIsFirstQualifyingHit ==
  (pc = "classified" /\ context.footprint.kind = "return") =>
    LET hits == context.raw_results.value
        fp == context.footprint.value
        first == FirstIndex(hits, QualifiesOfficial)
    IN  \/ fp.official_site = None
        \/ first > 0 /\ fp.official_site = Get(hits[first].v, "url")

\* two official-looking hits with different urls have been classified and the
\* earlier of the two is the official site
C16_Witness ==
  /\ pc = "classified"
  /\ context.footprint.kind = "return"
  /\ Len(context.raw_results.value) = MaxHits
  /\ LET hits == context.raw_results.value
     IN  /\ \E i, j \in DOMAIN hits :
               /\ i < j
               /\ QualifiesOfficial(hits[i])
               /\ QualifiesOfficial(hits[j])
               /\ hits[i].v.url # hits[j].v.url
         /\ context.footprint.value.official_site
              = hits[FirstIndex(hits, QualifiesOfficial)].v.url

(***************************************************************************)
(* C17. Location verification is skipped when the registry record has no   *)
(* address, a record for which the lookup found no location address        *)
(* included: the geocoder is not invoked, the reason is logged, and the    *)
(* geo field of the report stays absent.                                   *)
(***************************************************************************)
\* npi_tool.py line 141: the address of a record without a LOCATION address
AddressNotFound == Str(<<"Address not found">>)

\* the lookup resolved and its record has no address to geocode
NoRegistryAddress ==
  /\ Truthy(Get(context, "npi_data"))
  /\ LET address == Get(Get(context, "npi_data").v, "address")
     IN  ~Truthy(address) \/ address = AddressNotFound

\* (stated of the investigations in which every tool was imported, so that a
\* call of the geocoder is a call that reaches it)
C17_NoAddressSkipsGeocoding ==
  (imported = Len(Tools) /\ Ran("GeoVerificationStep") /\ NoRegistryAddress) =>
    /\ \A i \in DOMAIN calls : calls[i].fn # "validate_address_osm"
    /\ HasLog("Investigator: No address to verify.")
    /\ Get(context, "geo_data") = None
    /\ pc = "done" => Get(report.v, "geo_verification") = None

(***************************************************************************)
(* C18. The audit log is append-only and chronological: every step of a    *)
(* run leaves the entries it found in place and in order and only adds     *)
(* entries after them, the first entry is the entry of the start of the    *)
(* investigation, and the report's audit log is the accumulated sequence.  *)
(***************************************************************************)
\* a is a prefix of b
IsPrefix(a, b) == Len(a) <= Len(b) /\ SubSeq(b, 1, Len(a)) = a

\* the entry of line 214
StartEntry(npi_id) == <<"Investigator: Starting investigation for NPI:", npi_id>>

C18_AuditLogAppendOnly ==
  [][/\ IsPrefix(logs, logs')
     /\ pc' # "idle" =>
          /\ Len(logs') >= 1
          /\ logs'[1] = StartEntry(Get(context', "target_npi"))
     /\ pc' = "done" => Get(report'.v, "audit_log") = List(logs')]_vars

\* a report whose log holds the entries of all five steps after the start entry,
\* the failure of the web tool among them
C18_Witness ==
  /\ pc = "done"
  /\ Len(executed) = Len(Steps)
  /\ HasLog("Investigator: Web tool error:")
  /\ HasLog("Investigator: Address verified. Match:")
  /\ Get(report.v, "audit_log") = List(logs)
  /\ logs[1][1] = "Investigator: Starting investigation for NPI:"
  /\ logs[2] = <<"Investigator: Querying CMS NPI Registry API...">>

(***************************************************************************)
(* C19. Investigations share no mutable state: however two investigations  *)
(* are interleaved, on one agent or on two, the context and the log of     *)
(* each hold its own identifier and nothing the other wrote, and each      *)
(* context, log and report is the one the investigation produces when it   *)
(* runs alone with the same collaborator answers.                          *)
(***************************************************************************)
C19_NoSharedState ==
  \A k \in Investigations :
    pc[k].at # "idle" =>
      \E alone \in {Alone(k, Len(executed[k]))}, mine \in {PairInputs[k].npi_id} :
          /\ context[ContextRef(k)] = alone.context
          /\ logs[LogsRef(k)] =
               alone.logs \o (IF pc[k].at = "waiting"
                              THEN Prologue(PairAt(k), alone.context) ELSE <<>>)
          /\ Get(context[ContextRef(k)], "target_npi") = mine
          /\ logs[LogsRef(k)][1] = StartEntry(mine)
          /\ \A i \in DOMAIN logs[LogsRef(k)] :
               \A o \in Investigations \ {k} :
                 logs[LogsRef(k)][i] # StartEntry(PairInputs[o].npi_id)
          /\ pc[k].at = "done" =>
               report[k] = AssembleReport(alone.context, alone.logs)

\* both investigations ran on the same agent, the second one starting and
\* ending between two steps of the first, and both returned their reports
C19_Witness ==
  /\ pc[1].at = "done" /\ pc[2].at = "done"
  /\ pc[1].agent = pc[2].agent
  /\ Len(executed[1]) = Len(Steps)
  /\ Len(executed[2]) = Len(Steps)
  /\ Get(report[1].v, "name_mismatch_flag") = Bool(TRUE)
  /\ Get(report[2].v, "name_mismatch_flag") = Bool(FALSE)
  /\ report[1] # report[2]

(***************************************************************************)
(* C20. Contact verification validates the registry phone and any claimed  *)
(* phone independently: a claimed phone is validated and reported as the   *)
(* claimed-phone result even when the registry record has no phone, and    *)
(* the registry phone is validated even when no claimed phone is supplied. *)
(***************************************************************************)
\* the phone tool was called with this number
Validated(phone) ==
  \E i \in DOMAIN calls : calls[i].fn = "validate_phone" /\ calls[i].arg = phone

\* the fields of the report that hold the validation result of this number
ResultsFor(phone) ==
  {f \in DOMAIN report.v :
     /\ report.v[f].t = "dict"
     /\ Get(report.v[f].v, "original") = phone}

C20_PhonesValidatedIndependently ==
  (pc = "done" /\ imported = Len(Tools) /\ Truthy(Get(context, "npi_data"))) =>
    LET registry_phone == Get(Get(context, "npi_data").v, "phone")
    IN  /\ Truthy(claimed.claimed_phone) =>
             /\ Validated(claimed.claimed_phone)
             /\ ResultsFor(claimed.claimed_phone) # {}
        /\ Truthy(registry_phone) =>
             /\ Validated(registry_phone)
             /\ "phone_verification" \in ResultsFor(registry_phone)

(***************************************************************************)
(* C21. When a claimed address is supplied to an investigation whose       *)
(* identifier resolves, the web-presence step issues a second, narrower    *)
(* search of budget 5 combining the claimed name and the claimed address,  *)
(* and the report stores the links it found as address-confirmation links, *)
(* besides the general footprint.                                          *)
(***************************************************************************)
\* a search of the address-confirmation budget was issued (web_tool.py line 88)
AddressSearched ==
  \E i \in DOMAIN calls :
    /\ calls[i].fn \in {"verify_address_claim", "search"}
    /\ calls[i].arg[Len(calls[i].arg)] = AddressBudget

\* the places of the report that hold links besides the four of the footprint
LinkFields(rep) ==
  {f \in DOMAIN rep : rep[f].t = "list" /\ f # "audit_log"}
  \cup (IF Truthy(Get(rep, "web_presence"))
        THEN DOMAIN Get(rep, "web_presence").v \ DOMAIN EmptyFootprint
        ELSE {})

C21_ClaimedAddressSearched ==
  (/\ pc = "done"
   /\ imported = Len(Tools)
   /\ Truthy(Get(context, "npi_data"))
   /\ Truthy(claimed.claimed_address)) =>
    /\ Ran("WebPresenceStep")
    /\ AddressSearched
    /\ LinkFields(report.v) # {}

(***************************************************************************)
(* C22. If the claimed name or the registry display name is empty after    *)
(* normalization (a claimed name of punctuation only, for example), the    *)
(* matcher skips the check: it reports no mismatch, the flag is false and  *)
(* no mismatch warning is logged.                                          *)
(***************************************************************************)
\* a registry record is present and one of the two names normalizes to ""
EmptyAfterNormalize ==
  /\ Truthy(Get(context, "npi_data"))
  /\ \/ normalize(Get(context, "vision_name")).v = <<>>
     \/ normalize(DisplayName(Get(context, "npi_data"))).v = <<>>

C22_EmptyNormalizedNameSkips ==
  (pc = "returned" /\ EmptyAfterNormalize) =>
    /\ ~is_name_mismatch(Get(context, "vision_name"), Get(context, "npi_data")).is_mismatch
    /\ Get(context, "name_mismatch_flag") = Bool(FALSE)
    /\ ~HasLog(MismatchWarning)

(***************************************************************************)
(* C23. For every pair of non-empty normalized names a and b the           *)
(* similarity the matcher computes is 2*M/T, M being the total length of   *)
(* the blocks of the greedy longest-common-substring recursive match of a  *)
(* and b and T = len(a) + len(b); it lies in [0,1], is 1 when a = b and 0  *)
(* when a and b share no character.                                        *)
(***************************************************************************)
\* M: the longest common block, then the same to its left and to its right,
\* every character of b taking part
GreedyMatched(a, b) == MatchedLength(a, b, 0, Len(a), 0, Len(b), {})

SharesNoCharacter(a, b) == \A i \in DOMAIN a : \A j \in DOMAIN b : a[i] # b[j]

C23_SimilarityIsTwiceMatchedOverTotal ==
  (pc = "step_e" /\ context.v_norm.v # <<>> /\ context.r_norm.v # <<>>) =>
    \E a \in {context.v_norm.v} : \E b \in {context.r_norm.v} :
      \E m \in {GreedyMatched(a, b)} :
        /\ context.ratio.num * (Len(a) + Len(b)) = 2 * m * context.ratio.den
        /\ 0 <= context.ratio.num
        /\ context.ratio.num <= context.ratio.den
        /\ a = b => context.ratio.num = context.ratio.den
        /\ SharesNoCharacter(a, b) => context.ratio.num = 0

(***************************************************************************)
(* C24. The two provider attempts of one search are a sequential fallback, *)
(* never a fan-out: the second provider is called at most once per search, *)
(* only after the attempt on the first provider has ended, and never when  *)
(* the first provider returned at least one result.                        *)
(***************************************************************************)
CallsOf(fn) == {i \in DOMAIN calls : calls[i].fn = fn}

C24_SequentialFallback ==
  (pc \in {"searched", "classified"} /\ "google" \in DOMAIN context) =>
    /\ Cardinality(CallsOf("search")) = 1
    /\ Cardinality(CallsOf("search_duckduckgo_html_fallback")) <= 1
    /\ \A s \in CallsOf("search_duckduckgo_html_fallback") :
         /\ \A p \in CallsOf("search") : p < s
         /\ calls[s].arg = calls[1].arg
    /\ DOMAIN calls = CallsOf("search") \cup CallsOf("search_duckduckgo_html_fallback")
    /\ (context.google.kind = "results" /\ Len(context.google.results) >= 1) =>
         CallsOf("search_duckduckgo_html_fallback") = {}

\* the first provider raised, and the second was asked once, after it
C24_Witness ==
  /\ pc = "searched"
  /\ "google" \in DOMAIN context
  /\ context.google.kind = "raise"
  /\ Len(calls) = 2
  /\ calls[1].fn = "search"
  /\ calls[1].error = context.google.error
  /\ calls[2].fn = "search_duckduckgo_html_fallback"

(***************************************************************************)
(* C25. Every hit in the list the aggregator returns has a non-empty url:  *)
(* a provider result whose url is empty or absent is dropped by the search *)
(* (its title may be empty), so the address-confirmation links derived     *)
(* from a search never contain an empty url.                               *)
(***************************************************************************)
C25_ReturnedHitsHaveUrl ==
  /\ (pc = "searched" /\ "google" \in DOMAIN context) =>
       \A i \in DOMAIN context.raw_results.value :
         Truthy(Get(context.raw_results.value[i].v, "url"))
  /\ pc = "linked" =>
       /\ context.links.kind = "return"
       /\ \A i \in DOMAIN context.links.value.v : Truthy(context.links.value.v[i])

(***************************************************************************)
(* C26. The list a search returns never has more than max_results entries, *)
(* whichever provider produced it and however many results that provider   *)
(* returned (15 for the footprint search, 5 for the address-confirmation   *)
(* search).                                                                *)
(***************************************************************************)
C26_ResultsWithinBudget ==
  /\ (pc = "searched" /\ "google" \in DOMAIN context) =>
       Len(context.raw_results.value) <= context.num_results
  /\ pc = "linked" => Len(context.links.value.v) <= AddressBudget

(***************************************************************************)
(* C27. official_site is sticky: while a hit list is classified, once      *)
(* official_site has been set to a url no later hit changes it, and a      *)
(* later hit that matches the official-keyword rule goes to other_mentions *)
(* (unless it is a social or a directory hit).                             *)
(***************************************************************************)
\* a pass of the loop made with official_site already set
LaterPass ==
  /\ pc = "in_loop"
  /\ pc' = "in_loop"
  /\ Truthy(context.partial.official_site)

C27_OfficialSiteSticky ==
  [][LaterPass =>
       /\ context'.partial.official_site = context.partial.official_site
       /\ LET res == context.raw_results.value[context'.at]
          IN  QualifiesOfficial(res) =>
                /\ context'.partial.other_mentions
                     = Append(context.partial.other_mentions, Get(res.v, "url"))
                /\ context'.partial.social_media = context.partial.social_media
                /\ context'.partial.directories = context.partial.directories]_vars

\* the second of two official-looking hits with different urls went to
\* other_mentions and the first is still the official site
C27_Witness ==
  /\ pc = "in_loop"
  /\ context.at = 2
  /\ QualifiesOfficial(context.raw_results.value[1])
  /\ QualifiesOfficial(context.raw_results.value[2])
  /\ context.raw_results.value[1].v.url # context.raw_results.value[2].v.url
  /\ context.partial.official_site = context.raw_results.value[1].v.url
  /\ context.partial.other_mentions = <<context.raw_results.value[2].v.url>>

(***************************************************************************)
(* C28. Classification follows the fixed priority social media, directory, *)
(* official site, other: a hit that matches a social-network domain is     *)
(* placed in social_media and never in directories or official_site, even  *)
(* if it also matches a directory domain or an official keyword; a hit     *)
(* that matches a directory domain and no social domain is placed in       *)
(* directories and never becomes official_site.                            *)
(***************************************************************************)
\* line 128: a hit with a url in which a social-network domain occurs
SocialHit(res) ==
  /\ Truthy(Get(res.v, "url"))
  /\ AnyIn(social_domains, ToLower(Get(res.v, "url").v))

\* line 133: a hit with a url in which a directory domain and no social one occurs
DirectoryHit(res) ==
  /\ Truthy(Get(res.v, "url"))
  /\ ~SocialHit(res)
  /\ AnyIn(directory_domains, ToLower(Get(res.v, "url").v))

\* the urls of a list of hits, in its order
UrlsOf(hits) == [i \in DOMAIN hits |-> Get(hits[i].v, "url")]

C28_ClassificationPriority ==
  (pc = "classified" /\ context.footprint.kind = "return") =>
    LET hits == context.raw_results.value
        fp == context.footprint.value
    IN  /\ fp.social_media = UrlsOf(SelectSeq(hits, SocialHit))
        /\ fp.directories = UrlsOf(SelectSeq(hits, DirectoryHit))
        /\ \A i \in DOMAIN hits :
             SocialHit(hits[i]) \/ DirectoryHit(hits[i]) =>
               /\ fp.official_site # Get(hits[i].v, "url")
               /\ Get(hits[i].v, "url") \notin Urls(fp.other_mentions)
        /\ Urls(fp.social_media) \cap Urls(fp.directories) = {}

\* a social hit that also matches a directory domain and a keyword, and a
\* directory hit that matches a keyword, were classified: neither is official
C28_Witness ==
  /\ pc = "classified"
  /\ context.footprint.kind = "return"
  /\ context.raw_results.value =
       <<Hit(Str(SocialDirectoryUrl), Str(OfficialTitle)),
         Hit(Str(DirectoryUrl), Str(DirectoryTitle))>>
  /\ AnyIn(directory_domains, SocialDirectoryUrl)
  /\ KeywordRule(Hit(Str(SocialDirectoryUrl), Str(OfficialTitle)))
  /\ KeywordRule(Hit(Str(DirectoryUrl), Str(DirectoryTitle)))
  /\ context.footprint.value =
       [official_site |-> None, social_media |-> <<Str(SocialDirectoryUrl)>>,
        directories |-> <<Str(DirectoryUrl)>>, other_mentions |-> <<>>]

(***************************************************************************)
(* C29. After the first step the registry record in the context is null if *)
(* and only if the status is the invalid-identifier status; and in every   *)
(* state in which the location, contact or web-presence step executes, the *)
(* registry record is present.                                             *)
(***************************************************************************)
\* the loop is about to execute this step (line 229)
Executes(name) ==
  /\ pc = "loop"
  /\ idx <= Len(Steps)
  /\ Steps[idx] = name
  /\ ~LoopBreaks(context)

RecordSteps == {"GeoVerificationStep", "PhoneValidationStep", "WebPresenceStep"}

C29_RecordNullIffInvalid ==
  /\ (Ran("NpiRegistryStep") /\ raised = None) =>
       /\ "npi_data" \in DOMAIN context
       /\ context.npi_data = None <=> Status = Str("INVALID_NPI")
       /\ context.npi_data # None => Truthy(context.npi_data)
  /\ \A name \in RecordSteps :
       Executes(name) \/ Ran(name) => Truthy(Get(context, "npi_data"))

\* the loop is about to execute the location step on a record
C29_Witness ==
  /\ Executes("GeoVerificationStep")
  /\ Ran("NpiRegistryStep")
  /\ Truthy(Get(context, "npi_data"))
  /\ Status = Str("PENDING")

(***************************************************************************)
(* C30. The location, contact and web-presence steps are mutually          *)
(* independent: they write pairwise disjoint context fields and none reads *)
(* a field another of the three writes, so executing them in any order or  *)
(* interleaving, the report being assembled after all three have finished, *)
(* yields the same geo, phone and web report fields as the sequential      *)
(* order.                                                                  *)
(***************************************************************************)
\* the context field each of the three steps stores its result in
FieldOf(name) ==
  CASE name = "GeoVerificationStep" -> "geo_data"
    [] name = "PhoneValidationStep" -> "phone_data"
    [] name = "WebPresenceStep" -> "web_data"

\* the keys the finished call of the step stored
WrittenBy(name) ==
  Written(calls[name].read.context,
          StepExecute(name, calls[name].read.context, calls[name].read.logs,
                      calls[name].answer).context)

C30_StepsIndependent ==
  /\ \A name \in ConcurrentSteps :
       pc[name] = "finished" =>
         \E written \in {WrittenBy(name)} :
           /\ written \subseteq {FieldOf(name)}
           /\ \A f \in written :
                Get(context, f) =
                  Get(StepExecute(name, calls.base.context, calls.base.logs,
                                  calls[name].answer).context, f)
  /\ pc.at = "done" =>
       \E sequential \in {SequentialReport} :
         /\ Get(report.v, "geo_verification") = Get(sequential.v, "geo_verification")
         /\ Get(report.v, "phone_verification") = Get(sequential.v, "phone_verification")
         /\ Get(report.v, "web_presence") = Get(sequential.v, "web_presence")
         /\ Get(report.v, "npi_registry") = Get(sequential.v, "npi_registry")

\* the web-presence step began before the other two and finished after them,
\* the contact step finished before the location step, and each of the three
\* fields of the report holds a result
C30_Witness ==
  /\ pc.at = "done"
  /\ DOMAIN calls.WebPresenceStep.read.context \cap {"geo_data", "phone_data"} = {}
  /\ "web_data" \notin DOMAIN calls.GeoVerificationStep.read.context
  /\ executed = <<"NpiRegistryStep", "NameVerificationStep", "PhoneValidationStep",
                  "GeoVerificationStep", "WebPresenceStep">>
  /\ Truthy(Get(report.v, "geo_verification"))
  /\ Truthy(Get(report.v, "phone_verification"))
  /\ Truthy(Get(report.v, "web_presence"))

(***************************************************************************)
(* C31. The audit log tells what succeeded: the location step logs an      *)
(* "address verified" entry only when the geocoder returned a location;    *)
(* when the geocoder returns nothing the log does not report the address   *)
(* as verified and the geo field holds no result.                          *)
(***************************************************************************)
VerifiedEntry == "Investigator: Address verified. Match:"

\* the location step called the geocoder, which returned without raising, and
\* the result the step stored (line 127) is no location
GeocoderFoundNothing ==
  /\ \E i \in DOMAIN calls :
       calls[i].fn = "validate_address_osm" /\ calls[i].error = None
  /\ ~Truthy(Get(context, "geo_data"))

C31_VerifiedOnlyWhenLocated ==
  /\ HasLog(VerifiedEntry) => Truthy(Get(context, "geo_data"))
  /\ (Ran("GeoVerificationStep") /\ GeocoderFoundNothing) => ~HasLog(VerifiedEntry)

(***************************************************************************)
(* C32. The invalid-identifier terminal state is entered only when the     *)
(* registry has no record for the identifier: when the registry request    *)
(* fails at transport level (timeout, HTTP error, malformed response) the  *)
(* first step does not set the status to INVALID_NPI, and the log names    *)
(* the cause of the failure.                                               *)
(***************************************************************************)
\* the first step executes, and the registry request it makes fails
TransportFailed ==
  /\ AtStep("NpiRegistryStep")
  /\ Defined("fetch_npi_data")
  /\ FetchRequests(Get(context, "target_npi"))
  /\ \E r \in {NpiRegistryStep(context, logs, HttpError)} :
       context' = r.context /\ logs' = r.logs /\ raised' = r.raised

\* some entry of the log carries the cause of the failed request
CauseLogged(lg) ==
  \E i \in DOMAIN lg : \E j \in DOMAIN lg[i] : lg[i][j] = HttpError.error.message

C32_TransportFailureIsNotInvalid ==
  [][TransportFailed =>
       /\ Get(context', "status") # Str("INVALID_NPI")
       /\ CauseLogged(logs')]_vars

(***************************************************************************)
(* C33. The web-presence step invokes the footprint search exactly when    *)
(* the display name resolved by the identity-match step, the registry city *)
(* and the registry state are all non-empty, with a query built from       *)
(* exactly those three values; otherwise no search is issued, an           *)
(* "insufficient data" entry is logged and the web footprint stays absent. *)
(* The identity-match step resolves that display name whenever the         *)
(* registry record has a non-empty name, whether or not a claimed name was *)
(* supplied.                                                               *)
(***************************************************************************)
InsufficientEntry == "Investigator: Insufficient data for web search."

\* the display name of the record the first step stored
ResolvedName == DisplayName(Get(context, "npi_data"))

\* the three values of the query, each non-empty
SearchInputs ==
  <<ResolvedName.v,
    GetOr(Get(context, "npi_data").v, "city", Str("")).v,
    GetOr(Get(context, "npi_data").v, "state", Str("")).v>>

SufficientData ==
  /\ Truthy(ResolvedName)
  /\ Truthy(GetOr(Get(context, "npi_data").v, "city", Str("")))
  /\ Truthy(GetOr(Get(context, "npi_data").v, "state", Str("")))

C33_SearchIffNameCityState ==
  /\ (Ran("NameVerificationStep") /\ Truthy(Get(context, "npi_data"))) =>
       IF Truthy(ResolvedName)
       THEN Get(context, "registry_name") = ResolvedName
       ELSE "registry_name" \notin DOMAIN context
  /\ Ran("WebPresenceStep") =>
       /\ CallsOf("find_provider_url") # {} => SufficientData
       /\ (SufficientData /\ Defined("find_provider_url")) =>
            /\ Cardinality(CallsOf("find_provider_url")) = 1
            /\ Cardinality(CallsOf("search")) = 1
            /\ \A i \in CallsOf("find_provider_url") : calls[i].arg = SearchInputs
            /\ \A i \in CallsOf("search") : calls[i].arg = <<SearchInputs, FootprintBudget>>
            /\ ~HasLog(InsufficientEntry)
       /\ ~SufficientData =>
            /\ CallsOf("find_provider_url") \cup CallsOf("search")
                 \cup CallsOf("search_duckduckgo_html_fallback") = {}
            /\ HasLog(InsufficientEntry)
            /\ "web_data" \notin DOMAIN context

\* the search was issued for a provider whose document gave no name
C33_Witness ==
  /\ Ran("WebPresenceStep")
  /\ ~Truthy(Get(context, "vision_name"))
  /\ SufficientData
  /\ CallsOf("search") # {}
  /\ Truthy(Get(context, "web_data"))

(***************************************************************************)
(* vision_tool.py: ResponseProcessor, GeminiApiClient, ProviderExtractor   *)
(***************************************************************************)
StartsWith(s, prefix) ==
  Len(s) >= Len(prefix) /\ SubSeq(s, 1, Len(prefix)) = prefix

EndsWith(s, suffix) ==
  Len(s) >= Len(suffix) /\ SubSeq(s, Len(s) - Len(suffix) + 1, Len(s)) = suffix

\* the markdown fence of three grave accents
Fence == <<Grave, Grave, Grave>>

JsonFence == Fence \o <<"j","s","o","n">>

\* the documents json.loads is given here, and what it makes of them
ProviderJson ==
  <<"{","\"","n","p","i","_","n","u","m","b","e","r","\"",":","\"","1","\"","}">>

EmptyObjectJson == <<"{","}">>

NullJson == <<"n","u","l","l">>

JsonDocuments == {ProviderJson, EmptyObjectJson, NullJson}

JsonValue(s) ==
  CASE s = ProviderJson -> Dict([npi_number |-> Str("1")])
    [] s = EmptyObjectJson -> EmptyDict
    [] s = NullJson -> None

\* json.loads(s): it skips the whitespace around the document
json_loads(s) ==
  IF Trim(s, JsonWhitespace) \in JsonDocuments
  THEN Return(JsonValue(Trim(s, JsonWhitespace)))
  ELSE Raise(Exc("JSONDecodeError", "Expecting value"))

\* ResponseProcessor.process(raw_text)
process(raw_text) ==
  LET stripped == Strip(raw_text)
      c1 == IF StartsWith(stripped, JsonFence)
            THEN SubSeq(stripped, Len(JsonFence) + 1, Len(stripped)) ELSE stripped
      c2 == IF StartsWith(c1, Fence) THEN SubSeq(c1, Len(Fence) + 1, Len(c1)) ELSE c1
      c3 == IF EndsWith(c2, Fence) THEN SubSeq(c2, 1, Len(c2) - Len(Fence)) ELSE c2
  IN  json_loads(Strip(c3))

\* GeminiApiClient.generate_content(request_content, max_retries=1): the text
\* of the response, None without a client or when the one call raised
generate_content(client, response) ==
  IF ~client THEN None
  ELSE IF response.kind = "exception" THEN None
  ELSE response.text

\* ProviderExtractor.__init__: self.max_retries
MaxRetries == 3

Continue == [kind |-> "continue"]

\* an iteration that gives up at the first response that does not parse
AttemptGivesUp(attempt, client, response) ==
  LET raw_text == generate_content(client, response)
      parsed == process(raw_text.v)
  IN  IF raw_text = None
      THEN IF attempt < MaxRetries - 1 THEN Continue ELSE Return(None)
      ELSE IF parsed.kind = "return" THEN Return(parsed.value)
      ELSE Return(None)

\* one iteration of the loop of ProviderExtractor.extract_provider_from_file
Attempt(attempt, client, response) ==
  LET raw_text == generate_content(client, response)
      parsed == process(raw_text.v)
  IN  IF raw_text = None
      THEN IF attempt < MaxRetries - 1 THEN Continue ELSE Return(None)
      ELSE IF parsed.kind = "return" THEN Return(parsed.value)
      ELSE IF attempt < MaxRetries - 1 THEN Continue ELSE Return(None)

\* lines 217-229: what becomes of the file before the first model call
FileOutcomes == {"missing", "import_error", "unreadable", "ready"}

\* the outcomes of one client.models.generate_content call
ModelFailure == [kind |-> "exception"]

Text(t) == [kind |-> "text", text |-> t]

NoResponse == [kind |-> "uncalled"]

FencedProviderJson == JsonFence \o <<"\n">> \o ProviderJson \o <<"\n">> \o Fence

ModelResponses ==
  {ModelFailure, Text(None), Text(Str(<<>>)), Text(Str(<<"S","o","r","r","y">>)),
   Text(Str(JsonFence \o Fence)), Text(Str(ProviderJson)), Text(Str(FencedProviderJson)),
   Text(Str(EmptyObjectJson)), Text(Str(NullJson))}

\* the record of one model call
ModelCall(attempt, response) ==
  [fn |-> "models.generate_content", arg |-> attempt, response |-> response]

(***************************************************************************)
(* The state machine of one ProviderExtractor.extract_provider_from_file   *)
(* call: context holds the file's outcome and whether the client exists,   *)
(* idx the attempt, calls the model calls made, report the value returned. *)
(***************************************************************************)
ExtractInit ==
  /\ imported = Len(Tools)
  /\ claimed = NoClaims
  /\ pc = "prepare"
  /\ idx = 0
  /\ context \in [file : FileOutcomes, client : BOOLEAN]
  /\ logs = <<>>
  /\ report = None
  /\ raised = None
  /\ executed = <<>>
  /\ calls = <<>>

\* lines 217-231
ExtractPrepare ==
  /\ pc = "prepare"
  /\ IF context.file = "ready" THEN pc' = "attempt" ELSE pc' = "returned"
  /\ UNCHANGED <<imported, claimed, idx, context, logs, report, raised, executed, calls>>

\* lines 233-256: one iteration of the loop, or its end
ExtractAttempt ==
  /\ pc = "attempt"
  /\ \E response \in (IF context.client /\ idx < MaxRetries
                      THEN ModelResponses ELSE {NoResponse}) :
       \E r \in {IF idx < MaxRetries THEN Attempt(idx, context.client, response)
                 ELSE Return(None)} :
         /\ calls' = IF response = NoResponse THEN calls
                     ELSE Append(calls, ModelCall(idx, response))
         /\ IF r.kind = "continue"
            THEN /\ idx' = idx + 1
                 /\ pc' = "attempt"
                 /\ report' = report
            ELSE /\ idx' = idx
                 /\ pc' = "returned"
                 /\ report' = r.value
  /\ UNCHANGED <<imported, claimed, context, logs, raised, executed>>

ExtractNext == ExtractPrepare \/ ExtractAttempt

ExtractSpec == ExtractInit /\ [][ExtractNext]_vars

\* the one thread of the call runs on: each model call returns or raises, each
\* sleep ends
ExtractLive == ExtractSpec /\ WF_vars(ExtractNext)

(***************************************************************************)
(* C34. Document extraction with retry always terminates:                  *)
(* ProviderExtractor.extract_provider_from_file makes at most 3 model      *)
(* calls per file, returns the parsed data of the first call whose         *)
(* response parses as JSON, returns None when all 3 attempts fail (the     *)
(* call returned nothing or the JSON did not parse), and makes no attempt  *)
(* after a success.                                                        *)
(***************************************************************************)
\* the response of model call i has a text that parses
Parses(i) ==
  /\ calls[i].response.kind = "text"
  /\ calls[i].response.text # None
  /\ process(calls[i].response.text.v).kind = "return"

RetryInvariant ==
  /\ Len(calls) <= MaxRetries
  /\ \A i \in DOMAIN calls :
       Parses(i) =>
         /\ i = Len(calls)
         /\ pc = "returned"
         /\ report = process(calls[i].response.text.v).value
  /\ (pc = "returned" /\ ~\E i \in DOMAIN calls : Parses(i)) =>
       /\ report = None
       /\ (context.file = "ready" /\ context.client) => Len(calls) = MaxRetries
       /\ context.file # "ready" => Len(calls) = 0

C34_ExtractionRetryTerminates == []RetryInvariant /\ <>(pc = "returned")

\* the first call raised, the second answered with text that is no JSON, the
\* third with a fenced document, whose data is returned
C34_Witness ==
  /\ pc = "returned"
  /\ Len(calls) = MaxRetries
  /\ calls[1].response = ModelFailure
  /\ calls[2].response = Text(Str(<<"S","o","r","r","y">>))
  /\ calls[3].response = Text(Str(FencedProviderJson))
  /\ report = Dict([npi_number |-> Str("1")])

(***************************************************************************)
(* vision_tool.py: FilePathResolver and the standalone                     *)
(* extract_provider_from_file.  A path is the tuple of its components, an  *)
(* absolute one beginning with "/"; the file system is the set of the      *)
(* absolute paths of its files.                                            *)
(***************************************************************************)
\* lines 454-455: the directory above the one of vision_tool.py
ProjectRoot == <<"/", "proj">>

IsAbsolute(p) == Len(p) > 0 /\ p[1] = "/"

\* os.path.join(a, b)
Join(a, b) == IF IsAbsolute(b) THEN b ELSE a \o b

\* os.path.basename(p)
Basename(p) == IF Len(p) = 0 THEN <<>> ELSE <<p[Len(p)]>>

\* FilePathResolver.__init__: self.input_dir
InputDir == Join(ProjectRoot, <<"input_images">>)

NotDot(c) == c # "."

\* the file a path names for a process whose working directory is cwd
Resolve(p, cwd) == SelectSeq(Join(cwd, p), NotDot)

\* os.path.exists(p)
Exists(p, cwd, fs) == Resolve(p, cwd) \in fs

\* line 352: supported_extensions
SupportedExtensions == {".jpg", ".jpeg", ".png", ".webp", ".heic", ".bmp", ".pdf", ".docx"}

\* the file names of the model and the end of each, lower-cased
LowerExtension(filename) ==
  CASE filename = "sample_doctor.jpg" -> ".jpg"
    [] filename = "B.PDF" -> ".pdf"
    [] filename = "notes.txt" -> ".txt"

Supported(filename) == LowerExtension(filename) \in SupportedExtensions

\* FilePathResolver.get_all_input_files(): listing is os.listdir(input_dir)
get_all_input_files(listing) ==
  LET kept == SelectSeq(listing, Supported)
  IN  [i \in DOMAIN kept |-> Join(InputDir, <<kept[i]>>)]

\* lines 449-464: resolved_path, None when the file is in none of the three places
ResolvedPath(file_path, cwd, fs) ==
  LET potential_path == Join(ProjectRoot, file_path)
      potential_path_2 == Join(Join(ProjectRoot, <<"input_images">>), Basename(file_path))
  IN  IF Exists(file_path, cwd, fs) THEN file_path
      ELSE IF Exists(potential_path, cwd, fs) THEN potential_path
      ELSE IF Exists(potential_path_2, cwd, fs) THEN potential_path_2
      ELSE <<>>

RECURSIVE Merge(_, _)
\* lines 479-481: each path of all_files that is not yet a candidate is added
Merge(candidates, all_files) ==
  IF Len(all_files) = 0 THEN candidates
  ELSE Merge(IF \E i \in DOMAIN candidates : candidates[i] = Head(all_files)
             THEN candidates ELSE Append(candidates, Head(all_files)),
             Tail(all_files))

\* lines 446-481: the candidate list
Candidates(file_path, cwd, fs, listing) ==
  LET resolved_path == ResolvedPath(file_path, cwd, fs)
  IN  Merge(IF resolved_path # <<>> THEN <<resolved_path>> ELSE <<>>,
            get_all_input_files(listing))

\* the inputs: what input_images lists, the files outside it, the path asked
\* for, the working directory, the configuration
SampleDoctor == "sample_doctor.jpg"

Listings == {<<>>, <<SampleDoctor>>, <<"B.PDF">>, <<"notes.txt", SampleDoctor, "B.PDF">>}

OutsideFile == Join(ProjectRoot, <<"docs", SampleDoctor>>)

FileSystem(listing) ==
  {OutsideFile} \cup {Join(InputDir, <<listing[i]>>) : i \in DOMAIN listing}

RequestedPaths ==
  {<<"input_images", SampleDoctor>>, <<".", "input_images", SampleDoctor>>,
   <<SampleDoctor>>, Join(InputDir, <<SampleDoctor>>), <<"docs", SampleDoctor>>,
   <<"nope.jpg">>}

WorkingDirectories == {ProjectRoot, <<"/", "tmp">>}

\* GEMINI_API_KEY is set and genai.Client accepts it; it is missing; the
\* constructor of the client raises
Configurations == {"configured", "no_key", "client_error"}

\* what ProviderExtractor.extract_provider_from_file returns for a candidate
Extractions == {None, EmptyDict, Dict([npi_number |-> Str("1")])}

(***************************************************************************)
(* The state machine of one standalone extract_provider_from_file call     *)
(***************************************************************************)
FallbackInit ==
  /\ imported = Len(Tools)
  /\ claimed = NoClaims
  /\ pc = "build"
  /\ idx = 0
  /\ context \in [file_path : RequestedPaths, cwd : WorkingDirectories,
                  listing : Listings, config : Configurations]
  /\ logs = <<>>
  /\ report = None
  /\ raised = None
  /\ executed = <<>>
  /\ calls = <<>>

\* lines 436-484
FallbackBuild ==
  /\ pc = "build"
  /\ \E candidates \in {Candidates(context.file_path, context.cwd,
                                   FileSystem(context.listing), context.listing)} :
       CASE context.config = "no_key" ->
              pc' = "returned" /\ raised' = raised /\ executed' = executed
         [] context.config = "client_error" ->
              /\ pc' = "raised"
              /\ raised' = Exc("ValueError", "invalid API key")
              /\ executed' = executed
         [] context.config = "configured" ->
              /\ pc' = IF Len(candidates) = 0 THEN "returned" ELSE "loop"
              /\ raised' = raised
              /\ executed' = candidates
  /\ idx' = 1
  /\ UNCHANGED <<imported, claimed, context, logs, report, calls>>

\* lines 486-496: one candidate is tried, or none is left
FallbackTry ==
  /\ pc = "loop"
  /\ IF idx > Len(executed)
     THEN /\ pc' = "returned"
          /\ UNCHANGED <<idx, report, calls>>
     ELSE \E result \in Extractions :
            /\ calls' = Append(calls, [fn |-> "extract_provider_from_file",
                                       arg |-> executed[idx], result |-> result])
            /\ IF Truthy(result)
               THEN pc' = "returned" /\ report' = result /\ idx' = idx
               ELSE pc' = "loop" /\ report' = report /\ idx' = idx + 1
  /\ UNCHANGED <<imported, claimed, context, logs, raised, executed>>

FallbackNext == FallbackBuild \/ FallbackTry

FallbackSpec == FallbackInit /\ [][FallbackNext]_vars

(***************************************************************************)
(* C35. The standalone extract_provider_from_file tries the requested file *)
(* first when it exists, then every other supported file of input_images,  *)
(* each candidate at most once, and returns the extraction of the first    *)
(* candidate in that order that succeeds; it returns None only when every  *)
(* candidate failed or there is no candidate.                              *)
(***************************************************************************)
\* the file the i-th extraction read
FileTried(i) == Resolve(calls[i].arg, context.cwd)

\* the requested file, where it exists
RequestedFile ==
  LET p == ResolvedPath(context.file_path, context.cwd, FileSystem(context.listing))
  IN  IF p = <<>> THEN {} ELSE {Resolve(p, context.cwd)}

\* the supported files of input_images
InputFiles ==
  {Join(InputDir, <<context.listing[i]>>) :
     i \in {j \in DOMAIN context.listing : Supported(context.listing[j])}}

C35_RequestedFirstEachOnce ==
  /\ \A i, j \in DOMAIN calls : FileTried(i) = FileTried(j) => i = j
  /\ (calls # <<>> /\ RequestedFile # {}) => FileTried(1) \in RequestedFile
  /\ \A i \in DOMAIN calls : FileTried(i) \in RequestedFile \cup InputFiles
  /\ \A i \in DOMAIN calls : Truthy(calls[i].result) =>
       /\ i = Len(calls)
       /\ pc = "returned"
       /\ report = calls[i].result
  /\ (pc = "returned" /\ report = None) =>
       /\ {FileTried(i) : i \in DOMAIN calls} = RequestedFile \cup InputFiles
       /\ \A i \in DOMAIN calls : ~Truthy(calls[i].result)

(***************************************************************************)
(* main_test.py: VerificationPipeline, with npi_tool.search_npi_by_name    *)
(***************************************************************************)
IsUpperLetter(c) == \E i \in 1..Len(Upper) : Upper[i] = c

\* \w of the regular expression, for ASCII text
IsWordChar(c) ==
  \/ \E i \in 1..Len(Upper) : Upper[i] = c \/ Lower[i] = c
  \/ c \in {"0","1","2","3","4","5","6","7","8","9","_"}

\* the places where re.search(r'\b([A-Z]{2})\b', s) can match
StateCodeAt(s) ==
  {i \in 1..(Len(s) - 1) :
     /\ IsUpperLetter(s[i]) /\ IsUpperLetter(s[i + 1])
     /\ i = 1 \/ ~IsWordChar(s[i - 1])
     /\ i + 1 = Len(s) \/ ~IsWordChar(s[i + 2])}

\* VerificationPipeline._extract_state_from_address(address_raw)
extract_state_from_address(address_raw) ==
  IF ~Truthy(address_raw) THEN None
  ELSE IF StateCodeAt(address_raw.v) = {} THEN None
  ELSE LET i == CHOOSE k \in StateCodeAt(address_raw.v) :
                  \A j \in StateCodeAt(address_raw.v) : k <= j
       IN  Str(SubSeq(address_raw.v, i, i + 1))

\* len(s.split())
WordCount(s) ==
  Cardinality({i \in 1..Len(s) :
                 s[i] \notin Whitespace /\ (i = 1 \/ s[i - 1] \in Whitespace)})

\* whether search_npi_by_name(name_search, state) makes its second request
\* (npi_tool.py lines 60-67)
IndividualSearched(name_search, org_results) ==
  Len(org_results) = 0 /\ WordCount(name_search.v) >= 2

\* search_npi_by_name(name_search, state): org_results and ind_results are what
\* _execute_search returns for its two requests ([] when a request failed)
search_npi_by_name(name_search, state, org_results, ind_results) ==
  IF Len(org_results) > 0 THEN org_results[1].number
  ELSE IF IndividualSearched(name_search, org_results) /\ Len(ind_results) > 0
  THEN ind_results[1].number
  ELSE None

\* a pipeline that searches the registry for every named document
NeedsSearchWhenNamed(npi, claimed_name) == Truthy(claimed_name)

\* main_test.py lines 63 and 66: the search is made
NeedsSearch(npi, claimed_name) == ~Truthy(npi) /\ Truthy(claimed_name)

\* investigator.py line 212: the parameters of process_provider; self is bound
\* already when the method is called on an agent
ProcessProviderParameters == {"self", "npi_id", "vision_name"}

\* a call of process_provider on an agent with these keywords, in the order
\* they are written, answered by result: the first keyword that is no parameter,
\* or that names self, which has its value already, is refused, and so is a
\* call without npi_id, which has no default
CallProcessProvider(keywords, result) ==
  LET refused == {i \in DOMAIN keywords :
                    \/ keywords[i] \notin ProcessProviderParameters
                    \/ keywords[i] = "self"}
      first == CHOOSE i \in refused : \A j \in refused : i <= j
  IN  IF refused # {}
      THEN IF keywords[first] = "self"
           THEN Raise(Exc("TypeError",
                          "InvestigatorAgent.process_provider() got multiple values for argument 'self'"))
           ELSE Raise(Exc("TypeError",
                          "InvestigatorAgent.process_provider() got an unexpected keyword argument '"
                            \o keywords[first] \o "'"))
      ELSE IF \A i \in DOMAIN keywords : keywords[i] # "npi_id"
      THEN Raise(Exc("TypeError",
                     "InvestigatorAgent.process_provider() missing 1 required positional argument: 'npi_id'"))
      ELSE Return(result)

\* the paths run is called with: the one of the script (line 132) and another
ImagePaths == {"input_images/sample_doctor.jpg", "scan.jpg"}

\* the inputs: what the document gave, what the registry search finds
MobileAddress == <<"M","o","b","i","l","e",","," ","A","L"," ","3","6","6","0","8">>

StatelessAddress == <<"1","2"," ","M","a","i","n"," ","S","t">>

DocumentNpis == {None, Str(""), Str("1457890234")}

DocumentNames == {None, Str(<<>>), Str(ProvidenceHospital), Str(JohnSmith)}

DocumentAddresses == {None, Str(MobileAddress), Str(StatelessAddress)}

VisionData(npi, name, address) ==
  Dict([npi_number |-> npi, provider_name |-> name, address_raw |-> address,
        phone |-> None])

\* what the standalone extract_provider_from_file returns
VisionExtractions ==
  {None, EmptyDict}
  \cup {VisionData(n, p, a) : n \in DocumentNpis, p \in DocumentNames,
                              a \in DocumentAddresses}

SearchResults == {<<>>, <<[number |-> Str("1932102084")]>>}

InvestigationReports ==
  {Dict([npi_registry |-> None, name_mismatch_flag |-> Bool(FALSE)])}

(***************************************************************************)
(* The state machine of one VerificationPipeline.run call: context holds   *)
(* the locals, calls the searches and investigations begun, report the     *)
(* final report once it is saved.                                          *)
(***************************************************************************)
PipelineInit ==
  /\ imported = Len(Tools)
  /\ claimed = NoClaims
  /\ pc = "vision"
  /\ idx = 0
  /\ context \in {[image_path |-> p] : p \in ImagePaths}
  /\ logs = <<>>
  /\ report = None
  /\ raised = None
  /\ executed = <<>>
  /\ calls = <<>>

\* what the call of line 47 gives: the data of a document, nothing, or the
\* exception of the client's constructor (vision_tool.py lines 441, 164-167)
ExtractionOutcomes ==
  {Return(vision_data) : vision_data \in VisionExtractions}
  \cup {Raise(Exc("ValueError", "invalid API key"))}

\* lines 47-60
PipelineVision ==
  /\ pc = "vision"
  /\ \E extraction \in ExtractionOutcomes :
       IF extraction.kind = "raise"
       THEN /\ pc' = "raised"
            /\ raised' = extraction.error
            /\ context' = context
       ELSE \E vision_data \in {extraction.value} :
              /\ raised' = raised
              /\ IF ~Truthy(vision_data)
                 THEN /\ pc' = "returned"
                      /\ context' = [image_path |-> context.image_path,
                                     vision_data |-> vision_data]
                 ELSE /\ pc' = "fallback"
                      /\ context' = [image_path |-> context.image_path,
                                     vision_data |-> vision_data,
                                     document |-> vision_data,
                                     npi |-> Get(vision_data.v, "npi_number"),
                                     claimed_name |-> Get(vision_data.v, "provider_name"),
                                     claimed_address |-> Get(vision_data.v, "address_raw"),
                                     claimed_phone |-> Get(vision_data.v, "phone")]
  /\ UNCHANGED <<imported, claimed, idx, logs, report, executed, calls>>

\* lines 63-83
PipelineFallback ==
  /\ pc = "fallback"
  /\ IF ~NeedsSearch(context.npi, context.claimed_name)
     THEN UNCHANGED <<context, calls>>
     ELSE \E org_results \in SearchResults :
            \E ind_results \in (IF IndividualSearched(context.claimed_name, org_results)
                                THEN SearchResults ELSE {<<>>}) :
              \E state_code \in {extract_state_from_address(context.claimed_address)} :
                \E found_npi \in {search_npi_by_name(context.claimed_name, state_code,
                                                     org_results, ind_results)} :
                  /\ calls' = Append(calls, Call("search_npi_by_name",
                                                 <<context.claimed_name, state_code>>,
                                                 None))
                  /\ context' =
                       IF Truthy(found_npi)
                       THEN [context EXCEPT
                               !.npi = found_npi,
                               !.vision_data =
                                  Dict(Put(Put(context.vision_data.v, "npi_number", found_npi),
                                           "npi_source", Str("inferred_by_search")))]
                       ELSE context
  /\ pc' = "investigate"
  /\ UNCHANGED <<imported, claimed, idx, logs, report, raised, executed>>

\* lines 88-93
NewFinalReport(image_path, vision_data) ==
  [source_document |-> image_path, vision_extraction |-> vision_data,
   investigation_result |-> None, status |-> "pending"]

\* lines 88-120
PipelineInvestigate ==
  /\ pc = "investigate"
  /\ IF Truthy(context.npi)
     THEN \E result \in InvestigationReports :
            \E got \in {CallProcessProvider(<<"npi_id", "claimed_name">>, result)} :
              /\ calls' = Append(calls, Call("process_provider",
                                             <<context.npi, context.claimed_name>>,
                                             IF got.kind = "raise" THEN got.error ELSE None))
              /\ IF got.kind = "raise"
                 THEN /\ raised' = got.error
                      /\ pc' = "raised"
                      /\ report' = report
                 ELSE /\ raised' = raised
                      /\ pc' = "saved"
                      /\ report' = [NewFinalReport(context.image_path, context.vision_data) EXCEPT
                                      !.investigation_result = got.value,
                                      !.status = FinalStatus(got.value)]
     ELSE /\ calls' = calls
          /\ raised' = raised
          /\ pc' = "saved"
          /\ report' = [status |-> "UNVERIFIABLE_NO_NPI",
                        error |-> "NPI missing and search failed"]
                       @@ NewFinalReport(context.image_path, context.vision_data)
  /\ UNCHANGED <<imported, claimed, idx, context, logs, executed>>

PipelineNext == PipelineVision \/ PipelineFallback \/ PipelineInvestigate

PipelineSpec == PipelineInit /\ [][PipelineNext]_vars

(***************************************************************************)
(* C36. In VerificationPipeline.run the investigator is invoked only when  *)
(* an identifier is available: the registry name search is attempted only  *)
(* when the document has no identifier and has a claimed name; if no       *)
(* identifier is extracted or found, the investigator is never invoked,    *)
(* investigation_result stays null and the final status is                 *)
(* UNVERIFIABLE_NO_NPI; if the vision extraction fails, neither the search *)
(* nor the investigator runs and no report is saved.                       *)
(***************************************************************************)
InvestigatorInvoked == CallsOf("process_provider") # {}

SearchAttempted == CallsOf("search_npi_by_name") # {}

\* the document gave the identifier, or the search found one
IdentifierAvailable ==
  /\ "document" \in DOMAIN context
  /\ \/ Truthy(Get(context.document.v, "npi_number"))
     \/ SearchAttempted /\ Truthy(context.npi)

\* the extraction of line 47 returned nothing, or raised
ExtractionFailed ==
  /\ pc # "vision"
  /\ "vision_data" \in DOMAIN context => ~Truthy(context.vision_data)

C36_InvestigatorNeedsIdentifier ==
  /\ InvestigatorInvoked =>
       /\ IdentifierAvailable
       /\ \A i \in CallsOf("process_provider") : Truthy(calls[i].arg[1])
  /\ SearchAttempted =>
       /\ ~Truthy(Get(context.document.v, "npi_number"))
       /\ Truthy(Get(context.document.v, "provider_name"))
  /\ (pc \in {"saved", "raised"} /\ ~ExtractionFailed /\ ~IdentifierAvailable) =>
       /\ ~InvestigatorInvoked
       /\ pc = "saved"
       /\ report.investigation_result = None
       /\ report.status = "UNVERIFIABLE_NO_NPI"
  /\ ExtractionFailed =>
       /\ pc \in {"returned", "raised"}
       /\ pc = "returned" <=> "vision_data" \in DOMAIN context
       /\ ~SearchAttempted
       /\ ~InvestigatorInvoked
       /\ report = None

\* a document with a name and no identifier: both requests of the search were
\* made and found nothing, and the report saved is UNVERIFIABLE_NO_NPI
C36_Witness ==
  /\ pc = "saved"
  /\ SearchAttempted
  /\ Get(context.document.v, "provider_name") = Str(JohnSmith)
  /\ ~Truthy(context.npi)
  /\ ~InvestigatorInvoked
  /\ report.status = "UNVERIFIABLE_NO_NPI"
  /\ report.source_document = context.image_path

====
